---------------------------- MODULE Spec2Model ----------------------------
(***************************************************************************)
(* Model of the clinical note-taking application's orchestration core:     *)
(*   - utils/apiKeyManager.ts          (credential resolver)               *)
(*   - services/transcriptionService.ts (Whisper -> Gemini fallback)       *)
(*   - services/audioRecorderService.ts (capture adapter, cleanup)         *)
(*   - screens/VoiceRecorderScreen.tsx  (record/stop/transcribe flow)      *)
(*                                                                         *)
(* Strings are sequences of one-character strings.  Times are exact        *)
(* rationals <<numerator, denominator>> (JavaScript computes them in IEEE  *)
(* doubles; rounding is not modelled).  Error messages are sequences of    *)
(* tokens, so that "message A contains message B" is a subsequence test.   *)
(***************************************************************************)
EXTENDS Integers, Sequences, FiniteSets, TLC

VARIABLES
    \* ---- deployment target and credential sources (apiKeyManager.ts)
    isWeb,          \* Platform.OS === 'web'
    secureStore,    \* SecureStore contents, by config name ("" = no value)
    storeFails,     \* SecureStore calls reject
    extra,          \* Constants.expoConfig.extra, by key ("" = not set)
    publicEnv,      \* process.env EXPO_PUBLIC_<name>, by config name
    cfgName,        \* argument of the last getConfigValue/saveConfigValue
    cfgResult,      \* what that call returned or threw
    \* ---- generateBasicSegments as a pure function
    segText, segSize, segResult,
    \* ---- extractProcedureType as a pure function (geminiService.ts)
    noteContent, noteResult,
    \* ---- the notes table and its client (supabaseConfig.ts, storageService.ts)
    authUser,       \* getAuth().currentUser?.uid ("none" = signed out)
    supabaseClient, \* _supabase, the module variable of supabaseConfig.ts
    supabase,       \* the exported constant `supabase` of supabaseConfig.ts
    notes,          \* the rows of the notes table, by id
    stLast,         \* the last storageService call and how it ended
    \* ---- one generateMedicalNotes call (geminiService.ts)
    gen,
    \* ---- the proxy's POST /api/whisper handler (proxy-server.js)
    proxy,          \* the request being handled
    uploads,        \* the files in uploads/
    nextUpload,     \* the next file name multer hands out
    \* ---- the history list (HistoryScreen.tsx)
    history,        \* the component state of the latest render
    pending,        \* the loadNotes calls awaiting getNotes
    totalPages,     \* pages the caller's notes fill in the table
    \* ---- one transcribeAudio call (transcriptionService.ts)
    call,
    \* ---- the capture adapter (audioRecorderService.ts module state)
    recording,      \* the native Audio.Recording (session id, 0 = null)
    mediaRecorder,  \* the web MediaRecorder (session id, 0 = null)
    tempUri,        \* URI of the last stopped recording (handle id, 0 = null)
    webAudioBlob,   \* the web Blob behind tempUri (handle id, 0 = null)
    \* ---- the device: every recording session ever created and its file/blob
    sess,           \* by session id: none, prepared, recording, live, released, dead
    releases,       \* by session id: completed release operations on its handle
    nextId,         \* the next fresh session id
    \* ---- callers of the adapter, each at one await point
    thr,
    \* ---- the adapter calls completed so far by a single caller (newest last)
    sequential, hist

cfgVars == <<isWeb, secureStore, storeFails, extra, publicEnv, cfgName, cfgResult>>
noteVars == <<noteContent, noteResult>>
storeVars == <<authUser, supabaseClient, supabase, notes, stLast>>
genVars == <<gen>>
proxyVars == <<proxy, uploads, nextUpload>>
listVars == <<history, pending, totalPages>>
appVars == <<storeVars, genVars, proxyVars, listVars>>
segCore == <<segText, segSize, segResult, noteVars>>
segVars == <<segCore, appVars>>
trVars == <<call>>
recVars == <<recording, mediaRecorder, tempUri, webAudioBlob, sess, releases, nextId,
             thr, sequential, hist>>
vars == <<cfgVars, segVars, trVars, recVars>>

-----------------------------------------------------------------------------
(* Bounds *)

\* longest transcript text enumerated for segment synthesis
MaxLen == 4
\* recording sessions created in one run
MaxSessions == 2
\* completed adapter calls remembered in hist
HistLen == 3
\* clauses a generated note is put together from
MaxClauses == 3
\* files uploaded to the proxy in one run
MaxUploads == 3
\* getNotes calls of the history list in flight at once
MaxPending == 2
\* pages appended to the history list
MaxShown == 3
\* rows of the notes table
MaxNotes == 2
\* pages asked of getNotes
MaxPages == 3

-----------------------------------------------------------------------------
(* Strings *)

Chars == {"a", ".", " "}
Terminators == {".", "!", "?"}
Whitespace == {" "}

\* JavaScript's undefined, as a value comparable with strings
Undefined == <<"undefined">>

RECURSIVE StringsUpTo(_)
StringsUpTo(n) ==
    IF n = 0 THEN {<<>>}
    ELSE LET shorter == StringsUpTo(n - 1)
         IN  shorter \cup {Append(s, c) : s \in {t \in shorter : Len(t) = n - 1}, c \in Chars}

Texts == StringsUpTo(MaxLen)

\* index of the first non-whitespace character at or after i (Len(s)+1 if none)
RECURSIVE SkipSpace(_, _)
SkipSpace(s, i) ==
    IF i > Len(s) \/ s[i] \notin Whitespace THEN i ELSE SkipSpace(s, i + 1)

\* String.prototype.trim
RECURSIVE TrimRight(_)
TrimRight(s) ==
    IF Len(s) > 0 /\ s[Len(s)] \in Whitespace THEN TrimRight(SubSeq(s, 1, Len(s) - 1)) ELSE s

Trim(s) == TrimRight(SubSeq(s, SkipSpace(s, 1), Len(s)))

\* text.split(/(?<=[.!?])\s+/): cut at every maximal whitespace run that
\* directly follows a sentence terminator; the run itself is dropped.
RECURSIVE SplitFrom(_, _, _, _)
SplitFrom(s, i, cur, acc) ==
    IF i > Len(s) THEN Append(acc, cur)
    ELSE IF s[i] \in Whitespace /\ i > 1 /\ s[i - 1] \in Terminators
         THEN SplitFrom(s, SkipSpace(s, i), <<>>, Append(acc, cur))
         ELSE SplitFrom(s, i + 1, Append(cur, s[i]), acc)

SplitSentences(s) == SplitFrom(s, 1, <<>>, <<>>)

\* b occurs in a as a contiguous subsequence (String.prototype.includes)
Contains(a, b) ==
    \E i \in 0..(Len(a) - Len(b)) : SubSeq(a, i + 1, i + Len(b)) = b

-----------------------------------------------------------------------------
(* Exact rationals <<n, d>>, d > 0, kept in lowest terms *)

RECURSIVE GCD(_, _)
GCD(a, b) == IF b = 0 THEN a ELSE GCD(b, a % b)

Abs(n) == IF n < 0 THEN -n ELSE n

Rat(n, d) ==
    LET g == GCD(Abs(n), d)
    IN  <<n \div g, d \div g>>

RatEq(x, y) == x[1] * y[2] = y[1] * x[2]
RatSub(x, y) == Rat(x[1] * y[2] - y[1] * x[2], x[2] * y[2])
RatDivInt(x, k) == Rat(x[1], x[2] * k)
RatMulInt(k, x) == Rat(k * x[1], x[2])

-----------------------------------------------------------------------------
(* transcriptionService.ts: duration estimate and segment synthesis *)

BytesPerSecond == 2000

\* audio sizes in bytes (fileInfo.size / blob.size)
FileSizes == {0, 2000, 3000, 200000}

\* fileSize / 2000
calculateAudioDurationPerKilobyte(fileSize) == Rat(fileSize, 1000)

calculateAudioDuration(fileSize) == Rat(fileSize, BytesPerSecond)

DefaultSegmentConfidence == 85   \* percent

SegmentsOf(sentences, segmentDuration) ==
    [index \in 1..Len(sentences) |->
        [id         |-> index - 1,
         text       |-> Trim(sentences[index]),
         start      |-> RatMulInt(index - 1, segmentDuration),
         end        |-> RatMulInt(index, segmentDuration),
         confidence |-> DefaultSegmentConfidence]]

generateBasicSegmentsOffByOne(text, totalDuration) ==
    IF text = Undefined
    THEN [threw |-> TRUE, segments |-> <<>>]
    ELSE LET sentences == SplitSentences(text)
         IN  [threw |-> FALSE,
              segments |-> SegmentsOf(sentences, RatDivInt(totalDuration, Len(sentences) + 1))]

\* text.split throws a TypeError when text is undefined
generateBasicSegments(text, totalDuration) ==
    IF text = Undefined
    THEN [threw |-> TRUE, segments |-> <<>>]
    ELSE LET sentences == SplitSentences(text)
         IN  [threw |-> FALSE,
              segments |-> SegmentsOf(sentences, RatDivInt(totalDuration, Len(sentences)))]

NoSegResult == [threw |-> FALSE, segments |-> <<>>, called |-> FALSE]

SegInit ==
    /\ segText \in Texts
    /\ segSize \in FileSizes
    /\ segResult = NoSegResult

\* one call generateBasicSegments(text, calculateAudioDuration(size))
SegCall ==
    /\ ~segResult.called
    /\ LET r == generateBasicSegments(segText, calculateAudioDuration(segSize))
       IN  segResult' = [threw |-> r.threw, segments |-> r.segments, called |-> TRUE]
    /\ UNCHANGED <<segText, segSize, noteVars, appVars>>
    /\ UNCHANGED <<cfgVars, trVars, recVars>>

\* the caller moves on to another transcript
SegNext ==
    /\ segResult.called
    /\ segText' \in Texts
    /\ segSize' \in FileSizes
    /\ segResult' = NoSegResult
    /\ UNCHANGED <<noteVars, appVars, cfgVars, trVars, recVars>>

-----------------------------------------------------------------------------
(* geminiService.ts: extractProcedureType *)

\* Note content is a sequence of tokens: the keywords the patterns look
\* for, the separators they test ("nl" is the newline), and a plain word "x".
NoteSpace == {" ", "nl"}
Labels == <<"procedure", "diagnosis", "assessment", "chief complaint">>
Leads == {"is"}
Articles == {"a"}
Suffixes == {"surgery", "procedure", "assessment"}
Vocabulary == <<"appendicitis">>
DefaultProcedure == <<"Medical Procedure">>

\* "Diagnosis: Acute appendicitis."
DiagnosisExample == <<"diagnosis", ":", " ", "x", " ", "appendicitis", ".">>

Clauses ==
    { <<"procedure">>, <<"diagnosis">>, <<"assessment">>, <<"chief complaint">>,
      <<":">>, <<".">>, <<"nl">>, <<" ">>, <<"x">>, <<"surgery">>, <<"appendicitis">>,
      <<"is", " ", "a", " ">>,
      DiagnosisExample,
      <<"procedure", ":", " ", "x">>,
      <<"assessment", ":", "x", " ">>,
      <<"chief complaint", ":", "nl", "x">>,
      <<"is", " ", "a", " ", "x", " ", "surgery">> }

RECURSIVE ContentsUpTo(_)
ContentsUpTo(n) ==
    IF n = 0 THEN {<<>>}
    ELSE LET shorter == ContentsUpTo(n - 1)
         IN  shorter \cup {s \o c : s \in shorter, c \in Clauses}

NoteContents == ContentsUpTo(MaxClauses)

Min(S) == CHOOSE x \in S : \A y \in S : x <= y
Max(S) == CHOOSE x \in S : \A y \in S : x >= y

\* [^.\n] and . of the regular expressions
InCapture(c) == c \notin {".", "nl"}
Dot(c) == c # "nl"

\* last index of the longest run of [^.\n] that starts at p (p - 1 if none)
RECURSIVE RunEnd(_, _)
RunEnd(s, p) == IF p > Len(s) \/ ~InCapture(s[p]) THEN p - 1 ELSE RunEnd(s, p + 1)

\* last index of the longest run of \s that starts at p (p - 1 if none)
RECURSIVE SpaceEnd(_, _)
SpaceEnd(s, p) == IF p > Len(s) \/ s[p] \notin NoteSpace THEN p - 1 ELSE SpaceEnd(s, p + 1)

\* String.prototype.trim on tokens
RECURSIVE NoteTrimRight(_)
NoteTrimRight(s) ==
    IF Len(s) > 0 /\ s[Len(s)] \in NoteSpace
    THEN NoteTrimRight(SubSeq(s, 1, Len(s) - 1)) ELSE s

NoteTrim(s) == NoteTrimRight(SubSeq(s, SpaceEnd(s, 1) + 1, Len(s)))

NoCapture == [found |-> FALSE, capture |-> <<>>]
Captured(c) == [found |-> TRUE, capture |-> c]

\* :\s*([^.\n]+) with the colon at j: \s* takes the whole whitespace run
\* and gives spaces back only when no capture can start behind it
LabelCaptureAt(s, j) ==
    LET w == SpaceEnd(s, j + 1)
        back == {p \in (j + 1)..w : s[p] = " "}
    IN  IF w < Len(s) /\ InCapture(s[w + 1]) THEN <<w + 1, RunEnd(s, w + 1)>>
        ELSE IF back # {} THEN <<Max(back), RunEnd(s, Max(back))>>
        ELSE <<0, 0>>

\* label.*?: with the label at i: the colons on the same line, nearest first
LabelColons(s, i) ==
    {j \in (i + 1)..Len(s) :
        /\ s[j] = ":"
        /\ \A q \in (i + 1)..(j - 1) : Dot(s[q])
        /\ LabelCaptureAt(s, j)[1] # 0}

LabelStarts(s, label) == {i \in 1..Len(s) : s[i] = label /\ LabelColons(s, i) # {}}

\* content.match(/label.*?:\s*([^.\n]+)/i)
MatchLabel(s, label) ==
    IF LabelStarts(s, label) = {} THEN NoCapture
    ELSE LET i == Min(LabelStarts(s, label))
             c == LabelCaptureAt(s, Min(LabelColons(s, i)))
         IN  Captured(SubSeq(s, c[1], c[2]))

\* ([^.\n]+(?:surgery|procedure|examination|assessment)) starting at p:
\* index of the last suffix keyword of the run (0 if none)
GenericCaptureAt(s, p) ==
    LET ends == {e \in (p + 1)..RunEnd(s, p) : s[e] \in Suffixes}
    IN  IF ends = {} THEN 0 ELSE Max(ends)

\* \s+ behind the article at ia, then the capture: its possible starts
GenericStartsAfter(s, ia) ==
    {p \in (ia + 2)..(SpaceEnd(s, ia + 1) + 1) : GenericCaptureAt(s, p) # 0}

GenericLeads(s) ==
    {i \in 1..Len(s) :
        /\ s[i] \in Leads
        /\ LET w == SpaceEnd(s, i + 1)
           IN  /\ w >= i + 1 /\ w < Len(s)
               /\ s[w + 1] \in Articles
               /\ GenericStartsAfter(s, w + 1) # {}}

\* content.match(/(?:is|for|with)\s+(?:a|an)\s+([^.\n]+(?:surgery|...))/i)
MatchGeneric(s) ==
    IF GenericLeads(s) = {} THEN NoCapture
    ELSE LET i == Min(GenericLeads(s))
             p == Max(GenericStartsAfter(s, SpaceEnd(s, i + 1) + 1))
         IN  Captured(SubSeq(s, p, GenericCaptureAt(s, p)))

\* the patterns array, by index
GenericPattern == Len(Labels) + 1
MatchPattern(k, s) == IF k <= Len(Labels) THEN MatchLabel(s, Labels[k]) ELSE MatchGeneric(s)
PatternOrder == [k \in 1..GenericPattern |-> k]
DiagnosisFirstOrder == <<2, 1, 3, 4, 5>>

\* s.split(sep) for a one-token separator
RECURSIVE SplitAt(_, _, _, _, _)
SplitAt(s, sep, i, cur, acc) ==
    IF i > Len(s) THEN Append(acc, cur)
    ELSE IF s[i] = sep THEN SplitAt(s, sep, i + 1, <<>>, Append(acc, cur))
    ELSE SplitAt(s, sep, i + 1, Append(cur, s[i]), acc)

Includes(s, v) == \E i \in 1..Len(s) : s[i] = v

\* words.slice(from, to).join(' ') with 0-based from, exclusive to
RECURSIVE JoinWords(_, _, _)
JoinWords(words, from, to) ==
    IF from >= to THEN <<>>
    ELSE IF from + 1 = to THEN words[to]
    ELSE JoinWords(words, from, to - 1) \o <<" ">> \o words[to]

Capitalised(v) == IF v = "appendicitis" THEN "Appendicitis" ELSE v

ContextWords == 5

\* the sentence that names the procedure, cut to the words around it.
\* Empty sentences between repeated periods never contain the name, so
\* splitting at every period finds the same sentence as /[.!?]+/.
describeProcedure(s, v) ==
    LET sentences == SplitAt(s, ".", 1, <<>>, <<>>)
        relevant == sentences[Min({i \in 1..Len(sentences) : Includes(sentences[i], v)})]
        words == SplitAt(relevant, " ", 1, <<>>, <<>>)
        index == Min({i \in 1..Len(words) : Includes(words[i], v)}) - 1
        start == Max({0, index - ContextWords})
        end == Min({Len(words), index + ContextWords})
    IN  IF index > 0 THEN NoteTrim(JoinWords(words, start, end))
        ELSE <<Capitalised(v)>>

RECURSIVE scanVocabulary(_, _)
scanVocabulary(s, k) ==
    IF k > Len(Vocabulary) THEN [via |-> "default", pattern |-> 0, value |-> DefaultProcedure]
    ELSE IF Includes(s, Vocabulary[k])
    THEN [via |-> "vocabulary", pattern |-> 0, value |-> describeProcedure(s, Vocabulary[k])]
    ELSE scanVocabulary(s, k + 1)

\* for (const pattern of patterns) { ... if (match && match[1]) return match[1].trim() }
RECURSIVE firstPattern(_, _, _)
firstPattern(order, k, s) ==
    IF k > Len(order) THEN scanVocabulary(s, 1)
    ELSE LET m == MatchPattern(order[k], s)
         IN  IF m.found /\ m.capture # <<>>
             THEN [via |-> "pattern", pattern |-> order[k], value |-> NoteTrim(m.capture)]
             ELSE firstPattern(order, k + 1, s)

extractProcedureTypeDiagnosisFirst(content) == firstPattern(DiagnosisFirstOrder, 1, content)

extractProcedureType(content) == firstPattern(PatternOrder, 1, content)

NoNote == [via |-> "none", pattern |-> 0, value |-> <<>>]

NoteFixed == noteContent = <<>> /\ noteResult = NoNote

NoteInit == noteContent \in NoteContents /\ noteResult = NoNote

\* generateMedicalNotes derives procedureType from the generated content
ExtractProcedureType ==
    /\ noteResult = NoNote
    /\ noteResult' = extractProcedureType(noteContent)
    /\ UNCHANGED <<noteContent, segText, segSize, segResult, appVars>>
    /\ UNCHANGED <<cfgVars, trVars, recVars>>

\* the note is shown and dismissed
NoteDismissed ==
    /\ noteResult # NoNote
    /\ noteResult' = NoNote
    /\ noteContent' = <<>>
    /\ UNCHANGED <<segText, segSize, segResult, appVars>>
    /\ UNCHANGED <<cfgVars, trVars, recVars>>

-----------------------------------------------------------------------------
(* apiKeyManager.ts *)

OPENAI_API_KEY == "OPENAI_API_KEY"
GEMINI_API_KEY == "GEMINI_API_KEY"
OPENAI_API_URL == "OPENAI_API_URL"
GEMINI_API_URL == "GEMINI_API_URL"
SUPABASE_URL   == "SUPABASE_URL"

ConfigNames == {OPENAI_API_KEY, GEMINI_API_KEY, OPENAI_API_URL, GEMINI_API_URL, SUPABASE_URL}
\* the names whose sources the model varies
VariedNames == {OPENAI_API_KEY, GEMINI_API_KEY, SUPABASE_URL}
ExtraKeys == {"OPENAI_API_KEY", "GEMINI_API_KEY", "EXPO_PUBLIC_GEMINI_API_KEY", "supabaseUrl"}

HardcodedOpenAIKey == "sk-proj-hardcoded"
HardcodedGeminiKey == "AIza-hardcoded"
OpenAIBaseUrl == "https://api.openai.com/v1"
GeminiBaseUrl == "https://generativelanguage.googleapis.com/v1"

\* a || b on strings
OrElse(a, b) == IF a # "" THEN a ELSE b

getValueFromConfig(configName) ==
    CASE configName = OPENAI_API_KEY -> extra["OPENAI_API_KEY"]
      [] configName = GEMINI_API_KEY ->
            OrElse(extra["GEMINI_API_KEY"], extra["EXPO_PUBLIC_GEMINI_API_KEY"])
      [] configName = SUPABASE_URL   -> extra["supabaseUrl"]
      [] configName = OPENAI_API_URL -> OpenAIBaseUrl
      [] configName = GEMINI_API_URL -> GeminiBaseUrl
      [] OTHER -> ""

Found(value, source) == [ok |-> TRUE, value |-> value, source |-> source]
NotConfigured(configName) ==
    [ok |-> FALSE, value |-> "", source |-> "not configured"]

\* a variant without the embedded browser fallback for the OpenAI key
getConfigValueNoHardcoded(configName) ==
    IF isWeb
    THEN IF getValueFromConfig(configName) # ""
         THEN Found(getValueFromConfig(configName), "app config")
         ELSE IF publicEnv[configName] # ""
         THEN Found(publicEnv[configName], "public env")
         ELSE NotConfigured(configName)
    ELSE IF ~storeFails /\ secureStore[configName] # ""
         THEN Found(secureStore[configName], "secure storage")
         ELSE IF getValueFromConfig(configName) # ""
         THEN Found(getValueFromConfig(configName), "app config")
         ELSE NotConfigured(configName)

\* a variant that consults the bundled configuration before SecureStore
getConfigValueConfigFirst(configName) ==
    IF isWeb
    THEN IF getValueFromConfig(configName) # ""
         THEN Found(getValueFromConfig(configName), "app config")
         ELSE IF publicEnv[configName] # ""
         THEN Found(publicEnv[configName], "public env")
         ELSE IF configName = OPENAI_API_KEY
         THEN Found(HardcodedOpenAIKey, "hardcoded")
         ELSE IF configName = GEMINI_API_KEY
         THEN Found(HardcodedGeminiKey, "hardcoded")
         ELSE NotConfigured(configName)
    ELSE IF getValueFromConfig(configName) # ""
         THEN Found(getValueFromConfig(configName), "app config")
         ELSE IF ~storeFails /\ secureStore[configName] # ""
         THEN Found(secureStore[configName], "secure storage")
         ELSE NotConfigured(configName)

getConfigValue(configName) ==
    IF isWeb
    THEN IF getValueFromConfig(configName) # ""
         THEN Found(getValueFromConfig(configName), "app config")
         ELSE IF publicEnv[configName] # ""
         THEN Found(publicEnv[configName], "public env")
         ELSE IF configName = OPENAI_API_KEY
         THEN Found(HardcodedOpenAIKey, "hardcoded")
         ELSE IF configName = GEMINI_API_KEY
         THEN Found(HardcodedGeminiKey, "hardcoded")
         \* falls through to the common fallback, which reads the same
         \* (empty) config value again and throws
         ELSE NotConfigured(configName)
    ELSE \* a SecureStore error is caught and the lookup continues
         IF ~storeFails /\ secureStore[configName] # ""
         THEN Found(secureStore[configName], "secure storage")
         ELSE IF getValueFromConfig(configName) # ""
         THEN Found(getValueFromConfig(configName), "app config")
         ELSE NotConfigured(configName)

getOpenAIKey == getConfigValue(OPENAI_API_KEY)
getGeminiKey == getConfigValue(GEMINI_API_KEY)
getOpenAIUrl == getConfigValue(OPENAI_API_URL)
getGeminiUrl == getConfigValue(GEMINI_API_URL)

NoCfgResult == [ok |-> FALSE, value |-> "", source |-> "none"]

EmptySource(names) == [n \in names |-> ""]
\* every assignment of `value` or nothing to the names in `varied`
SourcesOver(names, varied, value) ==
    {[n \in names |-> IF n \in on THEN value ELSE ""] : on \in SUBSET varied}

CfgInit ==
    /\ isWeb \in BOOLEAN
    /\ secureStore \in SourcesOver(ConfigNames, VariedNames, "stored")
    /\ storeFails \in BOOLEAN
    /\ extra \in SourcesOver(ExtraKeys, ExtraKeys, "bundled")
    /\ publicEnv \in SourcesOver(ConfigNames, VariedNames, "public")
    /\ cfgName = ""
    /\ cfgResult = NoCfgResult

\* resolve(name)
GetConfig(configName) ==
    /\ cfgName' = configName
    /\ cfgResult' = getConfigValue(configName)
    /\ UNCHANGED <<isWeb, secureStore, storeFails, extra, publicEnv>>
    /\ UNCHANGED <<segVars, trVars, recVars>>

SaveConfigWritesOnWeb(configName, value) ==
    /\ cfgName' = configName
    /\ IF ~isWeb /\ storeFails
       THEN /\ secureStore' = secureStore
            /\ cfgResult' = [ok |-> FALSE, value |-> "", source |-> "save failed"]
       ELSE /\ secureStore' = [secureStore EXCEPT ![configName] = value]
            /\ cfgResult' = [ok |-> TRUE, value |-> value, source |-> "saved"]
    /\ UNCHANGED <<isWeb, storeFails, extra, publicEnv>>
    /\ UNCHANGED <<segVars, trVars, recVars>>

\* save(name, value): SecureStore.setItemAsync on native, a warning on web.
\* A SecureStore write error is rethrown and leaves the store as it was.
SaveConfig(configName, value) ==
    /\ cfgName' = configName
    /\ IF isWeb
       THEN /\ secureStore' = secureStore
            /\ cfgResult' = [ok |-> TRUE, value |-> "", source |-> "save ignored"]
       ELSE IF storeFails
       THEN /\ secureStore' = secureStore
            /\ cfgResult' = [ok |-> FALSE, value |-> "", source |-> "save failed"]
       ELSE /\ secureStore' = [secureStore EXCEPT ![configName] = value]
            /\ cfgResult' = [ok |-> TRUE, value |-> value, source |-> "saved"]
    /\ UNCHANGED <<isWeb, storeFails, extra, publicEnv>>
    /\ UNCHANGED <<segVars, trVars, recVars>>

\* the keychain becomes unavailable or available again: SecureStore calls
\* reject or succeed from now on (the try/catch of 49-58 and 95-105)
SecureStoreAvailability ==
    /\ ~isWeb
    /\ storeFails' = ~storeFails
    /\ UNCHANGED <<isWeb, secureStore, extra, publicEnv, cfgName, cfgResult>>
    /\ UNCHANGED <<segVars, trVars, recVars>>

\* values handed to save(name, value): a new secret, the empty string
SaveValues == {"saved", ""}

CfgNext ==
    \/ \E n \in ConfigNames : GetConfig(n)
    \/ \E n \in VariedNames, v \in SaveValues : SaveConfig(n, v)
    \/ SecureStoreAvailability

-----------------------------------------------------------------------------
(* transcriptionService.ts: provider responses and error messages *)

\* audio handles: empty/null, a URI whose resource is gone, a live recording
NoUri      == ""
MissingUri == "file:///missing.m4a"
LiveUri    == "file:///recording.m4a"
Uris == {NoUri, MissingUri, LiveUri}

\* transcripts a provider may return
ProviderTexts == {<<>>, <<"a">>, <<"a", ".", " ">>, <<"a", ".", " ", "a">>}

ProviderSegments ==
    << [id |-> 0, text |-> <<"a">>, start |-> <<0, 1>>, end |-> <<1, 1>>, confidence |-> 85] >>

Response(kind, status, text, hasSegments) ==
    [kind |-> kind, status |-> status, text |-> text, hasSegments |-> hasSegments]

\* a 2xx answer (text possibly missing), an HTTP error, no answer, a timeout
WhisperResponses ==
    {Response("ok", "200", t, b) : t \in ProviderTexts \cup {Undefined}, b \in BOOLEAN}
        \cup {Response("http", st, Undefined, FALSE) : st \in {"401", "429", "500"}}
        \cup {Response("network", "", Undefined, FALSE), Response("timeout", "", Undefined, FALSE)}

GeminiResponses ==
    {Response("ok", "200", t, FALSE) : t \in ProviderTexts \cup {Undefined}}
        \cup {Response("http", st, Undefined, FALSE) : st \in {"401", "403", "429", "500"}}
        \cup {Response("network", "", Undefined, FALSE), Response("timeout", "", Undefined, FALSE)}

NoResponse == Response("none", "", Undefined, FALSE)

\* error.message of the axios error for a failed request
AxiosMessage(r) ==
    CASE r.kind = "http"    -> <<"Request failed with status code", r.status>>
      [] r.kind = "network" -> <<"Network Error">>
      [] r.kind = "timeout" -> <<"timeout exceeded">>
      [] OTHER -> <<>>

\* statusCode in the messages built from an axios error
StatusOf(r) == IF r.kind = "http" THEN r.status ELSE "undefined"

NoFileMsg      == <<"No audio file provided for transcription">>
FileMissingMsg == <<"Audio file does not exist">>
FetchFailedMsg == <<"Failed to fetch">>
NoKeysMsg      == <<"No valid API keys found. Please configure your API keys in the settings.">>
TypeErrorMsg   == <<"Cannot read properties of undefined (reading 'split')">>
NotConfiguredMsg(configName) ==
    <<configName, "not configured. Please set in .env file or secure storage.">>

\* the messages thrown by transcribeAudioWithWhisper's catch block
WhisperAxiosError(r) ==
    IF r.status = "401"
    THEN <<"Invalid OpenAI API key. Please check your configuration.">>
    ELSE <<"Whisper API error (", StatusOf(r), "):">> \o AxiosMessage(r)
WhisperOtherError(msg) == <<"Failed to transcribe audio with Whisper:">> \o msg

\* the messages thrown by transcribeAudioWithGemini's catch block
GeminiAxiosError(r) ==
    IF r.status \in {"401", "403"}
    THEN <<"Invalid Gemini API key. Please check your configuration.">>
    ELSE <<"Gemini API error (", StatusOf(r), "):">> \o AxiosMessage(r)
GeminiOtherError(msg) == <<"Failed to transcribe audio with Gemini:">> \o msg

BothFailedPrefix == "Transcription failed with both services."

BothFailedError(whisperMsg, geminiMsg) ==
    <<BothFailedPrefix, "Whisper error:">> \o whisperMsg \o <<". Gemini error:">> \o geminiMsg

\* whisperError.message.includes('429') || .includes('rate limit')
IsRateLimit(msg) == Contains(msg, <<"429">>) \/ Contains(msg, <<"rate limit">>)

-----------------------------------------------------------------------------
(* transcriptionService.ts: response normalisation *)

WhisperConfidence == 90   \* percent
GeminiConfidence == 85    \* percent

\* value || '' on a response text
TextOrEmpty(t) == IF t = Undefined THEN <<>> ELSE t

NoOutcome ==
    [kind |-> "none", text |-> <<>>, confidence |-> 0, duration |-> <<0, 1>>,
     segments |-> <<>>, msg |-> <<>>]
Resolved(text, confidence, duration, segments) ==
    [kind |-> "ok", text |-> text, confidence |-> confidence, duration |-> duration,
     segments |-> segments, msg |-> <<>>]
Thrown(msg) == [NoOutcome EXCEPT !.kind = "error", !.msg = msg]

\* the object literal built from a Whisper 2xx answer; evaluating its
\* segments field throws when the answer has neither segments nor text
whisperResultEmptyText(r, size) ==
    Resolved(<<>>, WhisperConfidence, calculateAudioDuration(size), <<>>)

whisperResult(r, size) ==
    LET duration == calculateAudioDuration(size)
        synth == generateBasicSegments(r.text, duration)
    IN  IF ~r.hasSegments /\ synth.threw
        THEN Thrown(TypeErrorMsg)
        ELSE Resolved(TextOrEmpty(r.text), WhisperConfidence, duration,
                      IF r.hasSegments THEN ProviderSegments ELSE synth.segments)

geminiResultDropsText(r, size) ==
    Resolved(<<>>, GeminiConfidence, calculateAudioDuration(size), <<>>)

\* the object literal built from a Gemini 2xx answer
geminiResult(r, size) ==
    LET duration == calculateAudioDuration(size)
        text == TextOrEmpty(r.text)
    IN  Resolved(text, GeminiConfidence, duration, generateBasicSegments(text, duration).segments)

-----------------------------------------------------------------------------
(* transcriptionService.ts: transcribeAudio *)

IdleCall ==
    [pc |-> "idle", uri |-> NoUri, size |-> 0,
     openAIKey |-> "", geminiKey |-> "",  \* the web flow's two locals ("" = null)
     lookups |-> <<>>,                    \* config names resolved, in order
     whisperCalls |-> 0, geminiCalls |-> 0,
     wResp |-> NoResponse, gResp |-> NoResponse,
     whisperErr |-> <<>>, geminiErr |-> <<>>,
     delayed |-> FALSE,
     outcome |-> NoOutcome]

Finish(c, outcome) == [c EXCEPT !.pc = "done", !.outcome = outcome]
Lookup(c, names) == [c EXCEPT !.lookups = @ \o names]
DispatchWhisper(c) == [c EXCEPT !.pc = "whisper", !.whisperCalls = @ + 1]
DispatchGeminiTwice(c) == [c EXCEPT !.pc = "gemini", !.geminiCalls = @ + 2]
DispatchGemini(c) == [c EXCEPT !.pc = "gemini", !.geminiCalls = @ + 1]

\* FileSystem.getInfoAsync(uri).exists on native; the dummy object on web
safeGetFileInfoExists(uri) == isWeb \/ uri = LiveUri

nativeGeminiStartDropsPrimary(c) ==
    LET key == getGeminiKey
        c1 == Lookup(c, <<GEMINI_API_KEY>>)
        c2 == Lookup(c1, <<GEMINI_API_URL>>)
        failWith(cc, msg) == Finish([cc EXCEPT !.geminiErr = msg], Thrown(msg))
    IN  IF ~key.ok
        THEN failWith(c1, GeminiOtherError(NotConfiguredMsg(GEMINI_API_KEY)))
        ELSE IF ~getGeminiUrl.ok
        THEN failWith(c2, GeminiOtherError(NotConfiguredMsg(GEMINI_API_URL)))
        ELSE IF ~safeGetFileInfoExists(c.uri)
        THEN failWith(c2, GeminiOtherError(FileMissingMsg))
        ELSE DispatchGemini(c2)

\* ---- native: transcribeAudioWithGemini up to its request, inside the
\* catch (whisperError) block; any throw becomes the composite error
nativeGeminiStart(c) ==
    LET key == getGeminiKey
        c1 == Lookup(c, <<GEMINI_API_KEY>>)
        c2 == Lookup(c1, <<GEMINI_API_URL>>)
        failWith(cc, msg) ==
            Finish([cc EXCEPT !.geminiErr = msg], Thrown(BothFailedError(c.whisperErr, msg)))
    IN  IF ~key.ok
        THEN failWith(c1, GeminiOtherError(NotConfiguredMsg(GEMINI_API_KEY)))
        ELSE IF ~getGeminiUrl.ok
        THEN failWith(c2, GeminiOtherError(NotConfiguredMsg(GEMINI_API_URL)))
        ELSE IF ~safeGetFileInfoExists(c.uri)
        THEN failWith(c2, GeminiOtherError(FileMissingMsg))
        ELSE DispatchGemini(c2)

\* ---- native: catch (whisperError): optional 1 s delay, then Gemini
nativeWhisperFailed(c, msg) ==
    LET c1 == [c EXCEPT !.whisperErr = msg]
    IN  IF IsRateLimit(msg) THEN [c1 EXCEPT !.pc = "delay"] ELSE nativeGeminiStart(c1)

nativeWhisperStartIgnoresKey(c) ==
    DispatchWhisper(Lookup(c, <<OPENAI_API_KEY, OPENAI_API_URL>>))

\* ---- native: transcribeAudioWithWhisper up to its request
nativeWhisperStart(c) ==
    LET key == getOpenAIKey
        c1 == Lookup(c, <<OPENAI_API_KEY>>)
        c2 == Lookup(c1, <<OPENAI_API_URL>>)
    IN  IF ~key.ok
        THEN nativeWhisperFailed(c1, WhisperOtherError(NotConfiguredMsg(OPENAI_API_KEY)))
        ELSE IF ~getOpenAIUrl.ok
        THEN nativeWhisperFailed(c2, WhisperOtherError(NotConfiguredMsg(OPENAI_API_URL)))
        ELSE IF ~safeGetFileInfoExists(c.uri)
        THEN nativeWhisperFailed(c2, WhisperOtherError(FileMissingMsg))
        ELSE DispatchWhisper(c2)

\* ---- web: "Try Gemini as fallback via proxy server"
webGeminiStart(c) ==
    IF c.geminiKey # ""
    THEN DispatchGemini(c)
    ELSE Finish(c, Thrown(<<"Transcription on web platforms requires a running proxy server.">>))

\* ---- web: catch (whisperError): rethrow without a Gemini key, else go on
webWhisperFailed(c, msg) ==
    LET c1 == [c EXCEPT !.whisperErr = msg]
    IN  IF c.geminiKey = "" THEN Finish(c1, Thrown(msg)) ELSE webGeminiStart(c1)

\* ---- web: both keys have settled (null is ""), then the first request
webWithKeys(c) ==
    IF c.openAIKey = "" /\ c.geminiKey = ""
    THEN Finish(c, Thrown(NoKeysMsg))
    ELSE IF c.openAIKey # ""
    THEN DispatchWhisper(c)
    ELSE webGeminiStart(c)

\* ---- web: file check, blob fetch, both keys, then the first request
webStart(c) ==
    IF ~safeGetFileInfoExists(c.uri)
    THEN Finish(c, Thrown(FileMissingMsg))
    ELSE IF c.uri # LiveUri
    THEN Finish(c, Thrown(FetchFailedMsg))       \* fetch(fileUri) rejects
    ELSE LET openAI == getOpenAIKey
             gemini == getGeminiKey
             c1 == [Lookup(c, <<OPENAI_API_KEY, GEMINI_API_KEY>>) EXCEPT
                        !.openAIKey = IF openAI.ok THEN openAI.value ELSE "",
                        !.geminiKey = IF gemini.ok THEN gemini.value ELSE ""]
         IN  webWithKeys(c1)

\* transcribeAudio(fileUri) up to its first provider request
transcribeAudioStart(uri, size) ==
    LET c == [IdleCall EXCEPT !.uri = uri, !.size = size]
    IN  IF uri = NoUri
        THEN Finish(c, Thrown(NoFileMsg))
        ELSE IF isWeb THEN webStart(c) ELSE nativeWhisperStart(c)

\* the Whisper request settles
onWhisperResponse(c, r) ==
    LET c1 == [c EXCEPT !.wResp = r]
        result == whisperResult(r, c.size)
    IN  IF r.kind = "ok"
        THEN IF result.kind = "ok"
             THEN Finish(c1, result)
             ELSE IF isWeb
                  THEN webWhisperFailed(c1, result.msg)
                  ELSE nativeWhisperFailed(c1, WhisperOtherError(result.msg))
        ELSE IF isWeb
             THEN webWhisperFailed(c1, AxiosMessage(r))
             ELSE nativeWhisperFailed(c1, WhisperAxiosError(r))

\* the Gemini request settles
onGeminiResponse(c, r) ==
    LET c1 == [c EXCEPT !.gResp = r]
    IN  IF r.kind = "ok"
        THEN Finish(c1, geminiResult(r, c.size))
        ELSE IF isWeb
             THEN Finish([c1 EXCEPT !.geminiErr = AxiosMessage(r)], Thrown(AxiosMessage(r)))
             ELSE Finish([c1 EXCEPT !.geminiErr = GeminiAxiosError(r)],
                         Thrown(BothFailedError(c.whisperErr, GeminiAxiosError(r))))

\* ---- actions
TranscribeAudio(uri, size) ==
    /\ call.pc = "idle"
    /\ call' = transcribeAudioStart(uri, size)
    /\ UNCHANGED <<cfgVars, segVars, recVars>>

WhisperResponds(r) ==
    /\ call.pc = "whisper"
    /\ call' = onWhisperResponse(call, r)
    /\ UNCHANGED <<cfgVars, segVars, recVars>>

\* setTimeout(resolve, 1000) fires
DelayElapsed ==
    /\ call.pc = "delay"
    /\ call' = nativeGeminiStart([call EXCEPT !.delayed = TRUE])
    /\ UNCHANGED <<cfgVars, segVars, recVars>>

GeminiResponds(r) ==
    /\ call.pc = "gemini"
    /\ call' = onGeminiResponse(call, r)
    /\ UNCHANGED <<cfgVars, segVars, recVars>>

\* the caller has taken the result; the next call may begin
CallReturns ==
    /\ call.pc = "done"
    /\ call' = IdleCall
    /\ UNCHANGED <<cfgVars, segVars, recVars>>

TrNext ==
    \/ \E uri \in Uris, size \in FileSizes : TranscribeAudio(uri, size)
    \/ \E r \in WhisperResponses : WhisperResponds(r)
    \/ DelayElapsed
    \/ \E r \in GeminiResponses : GeminiResponds(r)
    \/ CallReturns

-----------------------------------------------------------------------------
(* audioRecorderService.ts: the capture adapter and its callers *)

Threads == {"t1", "t2"}
MainCaller == "t1"
SessionIds == 1..MaxSessions
Flows == {"recordAndTranscribe", "handleStopRecording"}

adapterVars == <<recording, mediaRecorder, tempUri, webAudioBlob>>
deviceVars == <<sess, releases, nextId>>

\* a caller: the exported function or screen handler it runs (op), its await
\* point (pc), whether its stopRecording runs inside startRecording, the
\* session its awaited device call is about (sid), the flow's audioUri (uri)
\* and how its call ended (res)
IdleThread ==
    [op |-> "none", pc |-> "idle", inStart |-> FALSE, sid |-> 0, uri |-> 0, res |-> "none"]

\* a call may begin as a call of its own or as the next step of a flow
CanEnter(t, callPc) == thr[t].pc \in {"idle", callPc}
Entered(t, op) == IF thr[t].pc = "idle" THEN [IdleThread EXCEPT !.op = op] ELSE thr[t]

Entry(op, res) == [op |-> op, res |-> res]
Push(h, e) ==
    IF ~sequential THEN h
    ELSE IF Len(h) < HistLen THEN Append(h, e) ELSE Append(Tail(h), e)

Returned(th, res) == [th EXCEPT !.pc = "returned", !.res = res, !.sid = 0, !.inStart = FALSE]

\* startRecording, stopRecording or cleanupTempFile has settled with `res`
\* (and value v): the exported call returns, or the flow that awaited it
\* goes on (recordAndTranscribe 174-201, handleStopRecording 207-246)
SubDone(th, sub, res, v) ==
    IF th.op = sub
    THEN Returned([th EXCEPT !.uri = v], res)
    ELSE CASE sub = "start" ->
                IF res = "ok" THEN [th EXCEPT !.pc = "call_stop", !.sid = 0]
                ELSE Returned(th, "threw")
           [] sub = "stop" ->
                \* if (!audioUri) throw ...
                IF res = "uri" THEN [th EXCEPT !.pc = "transcribing", !.uri = v, !.sid = 0]
                ELSE Returned(th, "threw")
           [] OTHER -> Returned(th, "ok")

StopDoneNullThrows(th, res, v) ==
    IF th.inStart
    THEN IF res = "threw"
         THEN SubDone(th, "start", "threw", 0)
         ELSE [th EXCEPT !.inStart = FALSE, !.sid = 0,
                         !.pc = IF isWeb THEN "S_getUserMedia" ELSE "S_permission"]
    ELSE SubDone(th, "stop", IF res = "null" THEN "threw" ELSE res, v)

\* stopRecording has settled; inside startRecording a throw becomes
\* 'Failed to start recording', anything else lets startRecording go on
StopDone(th, res, v) ==
    IF th.inStart
    THEN IF res = "threw"
         THEN SubDone(th, "start", "threw", 0)
         ELSE [th EXCEPT !.inStart = FALSE, !.sid = 0,
                         !.pc = IF isWeb THEN "S_getUserMedia" ELSE "S_permission"]
    ELSE SubDone(th, "stop", res, v)

StopSettled(t, th, res, v) ==
    /\ thr' = [thr EXCEPT ![t] = StopDone(th, res, v)]
    /\ hist' = IF th.inStart /\ res = "threw"
               THEN Push(Push(hist, Entry("stop", res)), Entry("start", "threw"))
               ELSE Push(hist, Entry("stop", res))

\* stopRecording up to its first await (113-150)
StopBegin(t, th) ==
    IF isWeb
    THEN IF mediaRecorder = 0
         THEN /\ StopSettled(t, th, "null", 0)
              /\ UNCHANGED <<adapterVars, deviceVars>>
         ELSE \* mediaRecorder.stop(); tracks stopped; mediaRecorder = null
              /\ thr' = [thr EXCEPT ![t] = [th EXCEPT !.pc = "P_onstop", !.sid = mediaRecorder]]
              /\ sess' = [sess EXCEPT ![mediaRecorder] = "stopped"]
              /\ mediaRecorder' = 0
              /\ UNCHANGED <<recording, tempUri, webAudioBlob, releases, nextId, hist>>
    ELSE IF recording = 0
         THEN /\ StopSettled(t, th, "null", 0)
              /\ UNCHANGED <<adapterVars, deviceVars>>
         ELSE \* await recording.stopAndUnloadAsync()
              /\ thr' = [thr EXCEPT ![t] = [th EXCEPT !.pc = "P_stopNative", !.sid = recording]]
              /\ UNCHANGED <<adapterVars, deviceVars, hist>>

\* startRecording up to its first await (59-68, 83)
StartEntry(t) ==
    /\ CanEnter(t, "call_start")
    /\ LET th == Entered(t, "start")
       IN  IF recording # 0 \/ mediaRecorder # 0
           THEN StopBegin(t, [th EXCEPT !.inStart = TRUE])
           ELSE /\ thr' = [thr EXCEPT ![t] =
                            [th EXCEPT !.pc = IF isWeb THEN "S_getUserMedia" ELSE "S_permission"]]
                /\ UNCHANGED <<adapterVars, deviceVars, hist>>
    /\ UNCHANGED <<sequential, cfgVars, segVars, trVars>>

\* web: getUserMedia settles; on success the new MediaRecorder is stored
\* in mediaRecorder, whatever it held, and started (68-79)
GetUserMediaSettles(t) ==
    /\ thr[t].pc = "S_getUserMedia"
    /\ \E granted \in BOOLEAN :
        IF granted /\ nextId <= MaxSessions
        THEN /\ mediaRecorder' = nextId
             /\ sess' = [sess EXCEPT ![nextId] = "recording"]
             /\ nextId' = nextId + 1
             /\ thr' = [thr EXCEPT ![t] = SubDone(thr[t], "start", "ok", 0)]
             /\ hist' = Push(hist, Entry("start", "ok"))
             /\ UNCHANGED <<recording, tempUri, webAudioBlob, releases>>
        ELSE /\ thr' = [thr EXCEPT ![t] = SubDone(thr[t], "start", "threw", 0)]
             /\ hist' = Push(hist, Entry("start", "threw"))
             /\ UNCHANGED <<adapterVars, deviceVars>>
    /\ UNCHANGED <<sequential, cfgVars, segVars, trVars>>

\* native: Audio.requestPermissionsAsync settles, then setAudioModeAsync (83-93)
PermissionSettles(t) ==
    /\ thr[t].pc = "S_permission"
    /\ \E granted \in BOOLEAN :
        IF granted
        THEN /\ thr' = [thr EXCEPT ![t].pc = "S_prepare"]
             /\ hist' = hist
        ELSE /\ thr' = [thr EXCEPT ![t] = SubDone(thr[t], "start", "threw", 0)]
             /\ hist' = Push(hist, Entry("start", "threw"))
    /\ UNCHANGED <<adapterVars, deviceVars, sequential, cfgVars, segVars, trVars>>

\* native: newRecording.prepareToRecordAsync settles (96-97); expo-av
\* rejects it while another Recording is prepared
PrepareSettles(t) ==
    /\ thr[t].pc = "S_prepare"
    /\ \E ok \in BOOLEAN :
        IF /\ ok /\ nextId <= MaxSessions
           /\ \A i \in SessionIds : sess[i] \notin {"prepared", "recording"}
        THEN /\ sess' = [sess EXCEPT ![nextId] = "prepared"]
             /\ nextId' = nextId + 1
             /\ thr' = [thr EXCEPT ![t] = [thr[t] EXCEPT !.pc = "S_startAsync", !.sid = nextId]]
             /\ hist' = hist
             /\ UNCHANGED <<releases>>
        ELSE /\ thr' = [thr EXCEPT ![t] = SubDone(thr[t], "start", "threw", 0)]
             /\ hist' = Push(hist, Entry("start", "threw"))
             /\ UNCHANGED <<deviceVars>>
    /\ UNCHANGED <<adapterVars, sequential, cfgVars, segVars, trVars>>

\* native: newRecording.startAsync settles; recording = newRecording (98-101)
StartAsyncSettles(t) ==
    /\ thr[t].pc = "S_startAsync"
    /\ \E ok \in BOOLEAN :
        IF ok
        THEN /\ sess' = [sess EXCEPT ![thr[t].sid] = "recording"]
             /\ recording' = thr[t].sid
             /\ thr' = [thr EXCEPT ![t] = SubDone(thr[t], "start", "ok", 0)]
             /\ hist' = Push(hist, Entry("start", "ok"))
        ELSE /\ thr' = [thr EXCEPT ![t] = SubDone(thr[t], "start", "threw", 0)]
             /\ hist' = Push(hist, Entry("start", "threw"))
             /\ UNCHANGED <<sess, recording>>
    /\ UNCHANGED <<mediaRecorder, tempUri, webAudioBlob, releases, nextId>>
    /\ UNCHANGED <<sequential, cfgVars, segVars, trVars>>

\* stopRecording called by a caller or a flow (113-150)
StopEntry(t) ==
    /\ CanEnter(t, "call_stop")
    /\ StopBegin(t, Entered(t, "stop"))
    /\ UNCHANGED <<sequential, cfgVars, segVars, trVars>>

\* web: the onstop event builds the blob and its URL (123-133)
StopWebOnstop(t) ==
    /\ thr[t].pc = "P_onstop"
    /\ webAudioBlob' = thr[t].sid
    /\ tempUri' = thr[t].sid
    /\ sess' = [sess EXCEPT ![thr[t].sid] = "live"]
    /\ StopSettled(t, thr[t], "uri", thr[t].sid)
    /\ UNCHANGED <<recording, mediaRecorder, releases, nextId>>
    /\ UNCHANGED <<sequential, cfgVars, segVars, trVars>>

\* native: stopAndUnloadAsync settles (150-167).  expo-av rejects it for a
\* Recording that is not recording; after a rejection the recorder may or
\* may not have been unloaded.  recording.getURI() reads the module
\* variable again and throws when it is null by now.
StopNativeSettles(t) ==
    /\ thr[t].pc = "P_stopNative"
    /\ \E ok \in BOOLEAN, unloaded \in BOOLEAN :
        LET sid == thr[t].sid
        IN  IF ok /\ sess[sid] = "recording"
            THEN /\ sess' = [sess EXCEPT ![sid] = "live"]
                 /\ IF recording = 0
                    THEN /\ StopSettled(t, thr[t], "threw", 0)
                         /\ UNCHANGED <<recording, tempUri>>
                    ELSE /\ tempUri' = recording
                         /\ recording' = 0
                         /\ StopSettled(t, thr[t], "uri", recording)
            ELSE /\ sess' = IF unloaded /\ sess[sid] = "recording"
                            THEN [sess EXCEPT ![sid] = "dead"] ELSE sess
                 /\ StopSettled(t, thr[t], "threw", 0)
                 /\ UNCHANGED <<recording, tempUri>>
    /\ UNCHANGED <<mediaRecorder, webAudioBlob, releases, nextId>>
    /\ UNCHANGED <<sequential, cfgVars, segVars, trVars>>

cleanupReleaseClearsOnFailure(uri, ok) == [released |-> ok, tempUri |-> 0]

cleanupReleaseKeepsUri(uri, ok) == [released |-> ok, tempUri |-> uri]

\* cleanupTempFile once its release has settled: tempUri = null after a
\* release that did not throw; the catch block leaves tempUri as it is
cleanupRelease(uri, ok) == [released |-> ok, tempUri |-> IF ok THEN 0 ELSE uri]

\* cleanupTempFile up to its first await (206-219); on web it runs to its end
CleanupEntry(t) ==
    /\ CanEnter(t, "call_cleanup")
    /\ LET th == Entered(t, "cleanup")
       IN  IF tempUri = 0
           THEN /\ thr' = [thr EXCEPT ![t] = SubDone(th, "cleanup", "noop", 0)]
                /\ hist' = Push(hist, Entry("cleanup", "noop"))
                /\ UNCHANGED <<adapterVars, deviceVars>>
           ELSE IF isWeb
           THEN \* URL.revokeObjectURL(tempUri)
                /\ sess' = [sess EXCEPT ![tempUri] = "released"]
                /\ releases' = [releases EXCEPT ![tempUri] = @ + 1]
                /\ webAudioBlob' = 0
                /\ tempUri' = cleanupRelease(tempUri, TRUE).tempUri
                /\ thr' = [thr EXCEPT ![t] = SubDone(th, "cleanup", "released", 0)]
                /\ hist' = Push(hist, Entry("cleanup", "released"))
                /\ UNCHANGED <<recording, mediaRecorder, nextId>>
           ELSE \* await safeDeleteFile(tempUri)
                /\ thr' = [thr EXCEPT ![t] = [th EXCEPT !.pc = "C_delete", !.sid = tempUri]]
                /\ UNCHANGED <<adapterVars, deviceVars, hist>>
    /\ UNCHANGED <<sequential, cfgVars, segVars, trVars>>

\* native: FileSystem.deleteAsync(uri, {idempotent: true}) settles (215-223)
DeleteSettles(t) ==
    /\ thr[t].pc = "C_delete"
    /\ \E ok \in BOOLEAN :
        LET after == cleanupRelease(tempUri, ok)
            res == IF after.released THEN "released" ELSE "failed"
        IN  /\ sess' = IF after.released THEN [sess EXCEPT ![thr[t].sid] = "released"] ELSE sess
            /\ releases' = IF after.released
                           THEN [releases EXCEPT ![thr[t].sid] = @ + 1] ELSE releases
            /\ tempUri' = after.tempUri
            /\ thr' = [thr EXCEPT ![t] = SubDone(thr[t], "cleanup", res, 0)]
            /\ hist' = Push(hist, Entry("cleanup", res))
    /\ UNCHANGED <<recording, mediaRecorder, webAudioBlob, nextId>>
    /\ UNCHANGED <<sequential, cfgVars, segVars, trVars>>

\* recordAndTranscribe is called (174-177)
BeginRecordAndTranscribe(t) ==
    /\ thr[t].pc = "idle"
    /\ thr' = [thr EXCEPT ![t] = [IdleThread EXCEPT !.op = "recordAndTranscribe", !.pc = "call_start"]]
    /\ UNCHANGED <<adapterVars, deviceVars, sequential, hist, cfgVars, segVars, trVars>>

\* the recorder screen's stop button handler runs (part_003 207-213)
BeginHandleStopRecording(t) ==
    /\ thr[t].pc = "idle"
    /\ thr' = [thr EXCEPT ![t] = [IdleThread EXCEPT !.op = "handleStopRecording", !.pc = "call_stop"]]
    /\ UNCHANGED <<adapterVars, deviceVars, sequential, hist, cfgVars, segVars, trVars>>

\* await transcribeAudio(audioUri) settles: with text, with empty text, or
\* it throws; a throw skips the flow's cleanupTempFile call
TranscribeSettles(t) ==
    /\ thr[t].pc = "transcribing"
    /\ \E out \in {"text", "empty", "threw"} :
        thr' = [thr EXCEPT ![t] =
                  IF out = "threw" THEN Returned(thr[t], "threw")
                  ELSE IF thr[t].op = "handleStopRecording" /\ out = "text"
                  THEN [thr[t] EXCEPT !.pc = "generating"]
                  ELSE [thr[t] EXCEPT !.pc = "call_cleanup"]]
    /\ UNCHANGED <<adapterVars, deviceVars, sequential, hist, cfgVars, segVars, trVars>>

\* await generateMedicalNotes(result.text) settles (part_003 228-232)
GenerateNotesSettles(t) ==
    /\ thr[t].pc = "generating"
    /\ \E ok \in BOOLEAN :
        thr' = [thr EXCEPT ![t] =
                  IF ok THEN [thr[t] EXCEPT !.pc = "call_cleanup"] ELSE Returned(thr[t], "threw")]
    /\ UNCHANGED <<adapterVars, deviceVars, sequential, hist, cfgVars, segVars, trVars>>

\* the caller has seen the outcome of its call
Return(t) ==
    /\ thr[t].pc = "returned"
    /\ thr' = [thr EXCEPT ![t] = IdleThread]
    /\ UNCHANGED <<adapterVars, deviceVars, sequential, hist, cfgVars, segVars, trVars>>

RecStep(t) ==
    \/ StartEntry(t)
    \/ GetUserMediaSettles(t)
    \/ PermissionSettles(t)
    \/ PrepareSettles(t)
    \/ StartAsyncSettles(t)
    \/ StopEntry(t)
    \/ StopWebOnstop(t)
    \/ StopNativeSettles(t)
    \/ CleanupEntry(t)
    \/ DeleteSettles(t)
    \/ BeginRecordAndTranscribe(t)
    \/ BeginHandleStopRecording(t)
    \/ TranscribeSettles(t)
    \/ GenerateNotesSettles(t)
    \/ Return(t)

RecIdle ==
    /\ recording = 0 /\ mediaRecorder = 0 /\ tempUri = 0 /\ webAudioBlob = 0
    /\ sess = [i \in SessionIds |-> "none"]
    /\ releases = [i \in SessionIds |-> 0]
    /\ nextId = 1
    /\ thr = [t \in Threads |-> IdleThread]
    /\ hist = <<>>

-----------------------------------------------------------------------------
(* supabaseConfig.ts and storageService.ts: the notes table *)

Users == {"A", "B"}
NoUser == "none"
Null == "null"
Client == "client"

NoteIds == 1..MaxNotes
NoteTexts == {"v0", "v1"}
NoRow == [userId |-> NoUser, text |-> ""]
Rows == {NoRow} \cup [userId : Users, text : NoteTexts]

NotAuthenticated == "User not authenticated"
NullClientError == "Cannot read properties of null (reading 'from')"
NoteNotFound == "Note not found"
NotAuthorized == "Not authorized"
InsertFailed == "insert failed"

\* getCurrentUserId(): auth.currentUser?.uid || null
getCurrentUserId == authUser

\* the caller's rows, newest first (ids are handed out in creation order)
RECURSIVE Descending(_)
Descending(S) ==
    IF S = {} THEN <<>>
    ELSE LET m == CHOOSE x \in S : \A y \in S : y <= x
         IN  <<m>> \o Descending(S \ {m})

OwnedBy(table, userId) == {i \in NoteIds : table[i].userId = userId}

Threw(msg) == [res |-> msg, rows |-> <<>>, hasMore |-> FALSE, notes |-> notes]
Returns(rows, hasMore, table) ==
    [res |-> "ok", rows |-> rows, hasMore |-> hasMore, notes |-> table]

\* what every function of storageService does first: the authentication
\* test, then `supabase.from(NOTES_TABLE)` on the imported constant
Guarded(body) ==
    IF getCurrentUserId = NoUser THEN Threw(NotAuthenticated)
    ELSE IF supabase = Null THEN Threw(NullClientError)
    ELSE body

saveNoteUnguarded(text) ==
    LET free == {i \in NoteIds : notes[i] = NoRow}
        id == CHOOSE i \in free : \A j \in free : i <= j
    IN  IF free = {} THEN Threw(InsertFailed)
        ELSE Returns(<<id>>, FALSE,
                     [notes EXCEPT ![id] = [userId |-> getCurrentUserId, text |-> text]])

saveNote(text) == Guarded(saveNoteUnguarded(text))

updateNote(id, text) ==
    Guarded(IF notes[id] = NoRow THEN Threw(NoteNotFound)
            ELSE IF notes[id].userId # getCurrentUserId THEN Threw(NotAuthorized)
            ELSE Returns(<<>>, FALSE, [notes EXCEPT ![id].text = text]))

getNotes(page, limitCount) ==
    LET offset == (page - 1) * limitCount
        mine == Descending(OwnedBy(notes, getCurrentUserId))
        last == IF offset + limitCount < Len(mine) THEN offset + limitCount ELSE Len(mine)
    IN  Guarded(Returns(SubSeq(mine, offset + 1, last), Len(mine) > offset + limitCount, notes))

getNoteById(id) ==
    Guarded(IF notes[id] = NoRow THEN Threw(NoteNotFound)
            ELSE IF notes[id].userId # getCurrentUserId THEN Threw(NotAuthorized)
            ELSE Returns(<<id>>, FALSE, notes))

deleteNote(id) ==
    Guarded(IF notes[id] = NoRow THEN Threw(NoteNotFound)
            ELSE IF notes[id].userId # getCurrentUserId THEN Threw(NotAuthorized)
            ELSE Returns(<<>>, FALSE, [notes EXCEPT ![id] = NoRow]))

\* an empty keyword lists the caller's recent notes; any other keyword
\* keeps the caller's rows whose text contains it
searchNotes(keyword) ==
    LET mine == OwnedBy(notes, getCurrentUserId)
        hits == IF keyword = "" THEN mine ELSE {i \in mine : notes[i].text = keyword}
    IN  Guarded(Returns(Descending(hits), FALSE, notes))

NoStoreCall ==
    [op |-> "none", user |-> NoUser, id |-> 0, res |-> "none", rows |-> <<>>, hasMore |-> FALSE]

StoreFixed ==
    /\ authUser = NoUser
    /\ supabaseClient = Null
    /\ supabase = Null
    /\ notes = [i \in NoteIds |-> NoRow]
    /\ stLast = NoStoreCall

\* supabaseConfig.ts has been evaluated: _supabase = null, the initialization
\* is pending, and `export const supabase = _supabase` has bound the
\* constant; the table holds whatever rows were stored before
StoreInit ==
    /\ authUser \in Users \cup {NoUser}
    /\ supabaseClient = Null
    /\ supabase = supabaseClient
    /\ notes \in [NoteIds -> Rows]
    /\ stLast = NoStoreCall

\* a storageService call by the signed-in user (or by nobody) runs to its end
StoreCall(op, id, out) ==
    /\ stLast' = [op |-> op, user |-> getCurrentUserId, id |-> id, res |-> out.res,
                  rows |-> out.rows, hasMore |-> out.hasMore]
    /\ notes' = out.notes
    /\ UNCHANGED <<authUser, supabaseClient, supabase>>
    /\ UNCHANGED <<cfgVars, segCore, trVars, recVars, genVars, proxyVars, listVars>>

\* initializeSupabase().then(client => { _supabase = client })
ClientInitialized ==
    /\ supabaseClient = Null
    /\ supabaseClient' = Client
    /\ UNCHANGED <<authUser, supabase, notes, stLast>>
    /\ UNCHANGED <<cfgVars, segCore, trVars, recVars, genVars, proxyVars, listVars>>

\* Firebase Auth: a user signs in, or the current one signs out
AuthStateChanged(u) ==
    /\ u # authUser
    /\ authUser' = u
    /\ UNCHANGED <<supabaseClient, supabase, notes, stLast>>
    /\ UNCHANGED <<cfgVars, segCore, trVars, recVars, genVars, proxyVars, listVars>>

SaveNote(text) == StoreCall("saveNote", 0, saveNote(text))
UpdateNote(id, text) == StoreCall("updateNote", id, updateNote(id, text))
GetNotes(page, limitCount) == StoreCall("getNotes", 0, getNotes(page, limitCount))
GetNoteById(id) == StoreCall("getNoteById", id, getNoteById(id))
DeleteNote(id) == StoreCall("deleteNote", id, deleteNote(id))
SearchNotes(keyword) == StoreCall("searchNotes", 0, searchNotes(keyword))

StoreNext ==
    \/ ClientInitialized
    \/ \E u \in Users \cup {NoUser} : AuthStateChanged(u)
    \/ \E text \in NoteTexts : SaveNote(text)
    \/ \E id \in NoteIds, text \in NoteTexts : UpdateNote(id, text)
    \/ \E page \in 1..MaxPages : GetNotes(page, 1)
    \/ \E id \in NoteIds : GetNoteById(id)
    \/ \E id \in NoteIds : DeleteNote(id)
    \/ \E keyword \in NoteTexts \cup {""} : SearchNotes(keyword)

-----------------------------------------------------------------------------
(* geminiService.ts: generateMedicalNotes *)

GenStatuses == {"400", "401", "403", "404", "429", "500", "503"}
\* error.response.data.error.message, when the provider sends one
ProviderMessages == {Undefined, <<"quota exceeded">>}
\* candidates[0].content.parts[0].text of a 2xx answer, when present
GeneratedContents == {Undefined, <<>>, DiagnosisExample}

GenResponse(kind, status, text, message) ==
    [kind |-> kind, status |-> status, text |-> text, message |-> message]

GenResponses ==
    {GenResponse("ok", "200", c, Undefined) : c \in GeneratedContents}
        \cup {GenResponse("http", st, Undefined, m) : st \in GenStatuses, m \in ProviderMessages}
        \cup {GenResponse("network", "", Undefined, Undefined)}

NoGenResponse == GenResponse("none", "", Undefined, Undefined)

ApiKeyErrorPrefix == "API key error: "
RateLimitExceeded == "Rate limit exceeded. Please try again later."
GeminiApiErrorPrefix == "Gemini API error ("

GenThrown(msg) == [threw |-> TRUE, message |-> msg, content |-> <<>>, title |-> <<>>]
GenReturned(content, title) ==
    [threw |-> FALSE, message |-> <<>>, content |-> content, title |-> title]
NoGenOutcome == [threw |-> FALSE, message |-> <<>>, content |-> <<>>, title |-> <<"none">>]

\* a variant whose catch block reports a 429 as a generic provider error
notesRequestFailedWithoutRateLimit(r) ==
    LET statusCode == StatusOf(r)
        errorMessage == IF r.message # Undefined THEN r.message ELSE AxiosMessage(r)
    IN  IF statusCode = "403"
        THEN GenThrown(<<ApiKeyErrorPrefix>> \o errorMessage)
        ELSE GenThrown(<<GeminiApiErrorPrefix, statusCode, "): ">> \o errorMessage)

\* the catch block for an axios error (428-438)
notesRequestFailed(r) ==
    LET statusCode == StatusOf(r)
        errorMessage == IF r.message # Undefined THEN r.message ELSE AxiosMessage(r)
    IN  IF statusCode = "403"
        THEN GenThrown(<<ApiKeyErrorPrefix>> \o errorMessage)
        ELSE IF statusCode = "429"
        THEN GenThrown(<<RateLimitExceeded>>)
        ELSE GenThrown(<<GeminiApiErrorPrefix, statusCode, "): ">> \o errorMessage)

\* the statements after the awaited axios.post (412-424)
notesRequestSucceeded(r) ==
    LET generatedContent == TextOrEmpty(r.text)
    IN  GenReturned(generatedContent, extractProcedureType(generatedContent).value)

onNotesResponse(r) ==
    IF r.kind = "ok" THEN notesRequestSucceeded(r) ELSE notesRequestFailed(r)

IdleGen == [pc |-> "idle", key |-> "", resp |-> NoGenResponse, out |-> NoGenOutcome]

GenFixed == gen = IdleGen

\* generateMedicalNotes up to the awaited axios.post (350-357); a key that
\* cannot be resolved throws an error that the catch block rethrows as it is
GenerateMedicalNotes ==
    /\ gen.pc = "idle"
    /\ gen' = IF getGeminiKey.ok
              THEN [gen EXCEPT !.pc = "awaiting", !.key = getGeminiKey.value]
              ELSE [gen EXCEPT !.pc = "done",
                               !.out = GenThrown(NotConfiguredMsg(GEMINI_API_KEY))]
    /\ UNCHANGED <<cfgVars, segCore, trVars, recVars, storeVars, proxyVars, listVars>>

\* the provider answers, or the request fails without an answer
NotesResponds(r) ==
    /\ gen.pc = "awaiting"
    /\ gen' = [gen EXCEPT !.pc = "done", !.resp = r, !.out = onNotesResponse(r)]
    /\ UNCHANGED <<cfgVars, segCore, trVars, recVars, storeVars, proxyVars, listVars>>

\* the caller has shown the notes or the error
NotesSeen ==
    /\ gen.pc = "done"
    /\ gen' = IdleGen
    /\ UNCHANGED <<cfgVars, segCore, trVars, recVars, storeVars, proxyVars, listVars>>

GenNext ==
    \/ GenerateMedicalNotes
    \/ \E r \in GenResponses : NotesResponds(r)
    \/ NotesSeen

-----------------------------------------------------------------------------
(* proxy-server.js: POST /api/whisper *)

\* statuses of an error answer of the transcription provider
ProviderErrorStatuses == {"401", "429", "500"}
\* how the awaited axios.post settles: a 2xx answer, an error answer, no answer
ProviderOutcomes ==
    {[kind |-> "ok", status |-> "200"]}
        \cup {[kind |-> "http", status |-> st] : st \in ProviderErrorStatuses}
        \cup {[kind |-> "transport", status |-> ""]}

IdleRequest == [pc |-> "idle", apiKey |-> FALSE, file |-> 0, status |-> ""]

ProxyFixed == proxy = IdleRequest /\ uploads = {} /\ nextUpload = 1

\* fs.unlinkSync(req.file.path)
unlinkSync(dir, file) == dir \ {file}

\* the handler up to the awaited axios.post (24-39); both early returns
\* leave req.file where multer stored it
whisperHandlerEntry(req) ==
    IF ~req.apiKey
    THEN [req EXCEPT !.pc = "responded", !.status = "400"]
    ELSE IF req.file = 0
    THEN [req EXCEPT !.pc = "responded", !.status = "400"]
    ELSE [req EXCEPT !.pc = "awaiting"]

\* the handler after axios.post has settled (47-66)
whisperHandlerSettled(req, dir, o) ==
    IF o.kind = "ok"
    THEN [req |-> [req EXCEPT !.pc = "responded", !.status = "200"],
          uploads |-> unlinkSync(dir, req.file)]
    ELSE [req |-> [req EXCEPT !.pc = "responded",
                              !.status = IF o.kind = "http" THEN o.status ELSE "500"],
          uploads |-> IF req.file # 0 /\ req.file \in dir
                      THEN unlinkSync(dir, req.file) ELSE dir]

\* a POST /api/whisper arrives: upload.single('file') stores the file part,
\* if there is one, in uploads/, then the handler runs
PostWhisper(apiKey, withFile) ==
    /\ proxy.pc = "idle"
    /\ withFile => nextUpload <= MaxUploads
    /\ LET file == IF withFile THEN nextUpload ELSE 0
       IN  /\ uploads' = IF withFile THEN uploads \cup {file} ELSE uploads
           /\ nextUpload' = IF withFile THEN nextUpload + 1 ELSE nextUpload
           /\ proxy' = whisperHandlerEntry([IdleRequest EXCEPT !.apiKey = apiKey, !.file = file])
    /\ UNCHANGED <<cfgVars, segCore, trVars, recVars, storeVars, genVars, listVars>>

\* the request to the transcription provider settles
WhisperProxySettles(o) ==
    /\ proxy.pc = "awaiting"
    /\ LET after == whisperHandlerSettled(proxy, uploads, o)
       IN  proxy' = after.req /\ uploads' = after.uploads
    /\ UNCHANGED nextUpload
    /\ UNCHANGED <<cfgVars, segCore, trVars, recVars, storeVars, genVars, listVars>>

\* the response has gone out; the server takes the next request
ResponseSent ==
    /\ proxy.pc = "responded"
    /\ proxy' = [proxy EXCEPT !.pc = "idle"]
    /\ UNCHANGED <<uploads, nextUpload>>
    /\ UNCHANGED <<cfgVars, segCore, trVars, recVars, storeVars, genVars, listVars>>

ProxyNext ==
    \/ \E apiKey \in BOOLEAN, withFile \in BOOLEAN : PostWhisper(apiKey, withFile)
    \/ \E o \in ProviderOutcomes : WhisperProxySettles(o)
    \/ ResponseSent

-----------------------------------------------------------------------------
(* HistoryScreen.tsx: the paginated history list *)

\* a row of the caller's notes is identified by the page it is on
PageOf(k) == IF k <= totalPages THEN <<k>> ELSE <<>>

\* useState defaults (328-333)
NewHistory ==
    [page |-> 1, hasMore |-> TRUE, loading |-> TRUE, loadingMore |-> FALSE, notes |-> <<>>]

HistoryFixed == history = NewHistory /\ pending = <<>> /\ totalPages = 0

HistoryInit ==
    /\ history = NewHistory
    /\ pending = <<>>
    /\ totalPages \in 0..MaxPages

\* the FlatList is on screen, so that onEndReached can fire (510-537)
ListShown == ~(history.loading /\ ~history.loadingMore) /\ history.notes # <<>>

Remove(s, i) == SubSeq(s, 1, i - 1) \o SubSeq(s, i + 1, Len(s))

\* loadNotes(resetPagination) up to its await: the page asked of getNotes is
\* 1, or the `page` of the render the function was created in (339-346)
loadNotesRequest(resetPagination, more) ==
    [reset |-> resetPagination, more |-> more,
     page |-> IF resetPagination THEN 1 ELSE history.page]

\* loadNotes() from the mount effect, the refresh button, or after a delete
LoadNotes ==
    /\ Len(pending) < MaxPending
    /\ pending' = Append(pending, loadNotesRequest(TRUE, FALSE))
    /\ history' = [history EXCEPT !.loading = TRUE, !.page = 1]
    /\ UNCHANGED totalPages
    /\ UNCHANGED <<cfgVars, segCore, trVars, recVars, storeVars, genVars, proxyVars>>

\* onEndReached: loadMoreNotes (365-372).  setPage(nextPage) takes effect
\* with the next render; the loadNotes it calls is the one of this render
LoadMoreNotes ==
    /\ ListShown
    /\ history.hasMore /\ ~history.loadingMore /\ ~history.loading
    /\ Len(pending) < MaxPending
    /\ history.page <= MaxPages /\ Len(history.notes) < MaxShown
    /\ pending' = Append(pending, loadNotesRequest(FALSE, TRUE))
    /\ history' = [history EXCEPT !.loadingMore = TRUE, !.loading = TRUE,
                                  !.page = history.page + 1]
    /\ UNCHANGED totalPages
    /\ UNCHANGED <<cfgVars, segCore, trVars, recVars, storeVars, genVars, proxyVars>>

\* an awaited getNotes settles: it resolves with the requested page of the
\* caller's notes, or it rejects; loadNotes and, after it, loadMoreNotes run
\* to their ends (346-362, 373)
GetNotesSettles(i, ok) ==
    /\ i \in 1..Len(pending)
    /\ LET req == pending[i]
           loadedNotes == PageOf(req.page)
           moreAvailable == req.page < totalPages
           after == IF ok
                    THEN [history EXCEPT
                            !.notes = IF req.reset THEN loadedNotes ELSE @ \o loadedNotes,
                            !.hasMore = moreAvailable,
                            !.loading = FALSE]
                    ELSE [history EXCEPT !.loading = FALSE]
       IN  history' = IF req.more THEN [after EXCEPT !.loadingMore = FALSE] ELSE after
    /\ pending' = Remove(pending, i)
    /\ UNCHANGED totalPages
    /\ UNCHANGED <<cfgVars, segCore, trVars, recVars, storeVars, genVars, proxyVars>>

HistoryNext ==
    \/ LoadNotes
    \/ LoadMoreNotes
    \/ \E i \in 1..MaxPending, ok \in BOOLEAN : GetNotesSettles(i, ok)

-----------------------------------------------------------------------------
(* Specifications *)

\* fixed credential sources, for the specifications that do not read them
CfgFixed ==
    /\ isWeb = FALSE
    /\ secureStore = EmptySource(ConfigNames)
    /\ storeFails = FALSE
    /\ extra = EmptySource(ExtraKeys)
    /\ publicEnv = EmptySource(ConfigNames)
    /\ cfgName = ""
    /\ cfgResult = NoCfgResult

\* the parts of the application a specification does not exercise
AppFixed == StoreFixed /\ GenFixed /\ ProxyFixed /\ HistoryFixed

SegFixed ==
    /\ segText = <<>> /\ segSize = 0 /\ segResult = NoSegResult
    /\ NoteFixed /\ AppFixed

\* the orchestrator: every platform and every combination of key sources
InitTr ==
    /\ isWeb \in BOOLEAN
    /\ secureStore \in SourcesOver(ConfigNames, {OPENAI_API_KEY, GEMINI_API_KEY}, "stored")
    /\ storeFails \in BOOLEAN
    /\ extra \in SourcesOver(ExtraKeys, {"OPENAI_API_KEY", "GEMINI_API_KEY"}, "bundled")
    /\ publicEnv = EmptySource(ConfigNames)
    /\ cfgName = "" /\ cfgResult = NoCfgResult
    /\ SegFixed
    /\ call = IdleCall
    /\ RecIdle /\ sequential = FALSE

Spec == InitTr /\ [][TrNext]_vars

\* generateBasicSegments on every text and size
InitSeg == SegInit /\ NoteFixed /\ AppFixed /\ CfgFixed /\ call = IdleCall /\ RecIdle /\ sequential = FALSE
NextSeg == SegCall \/ SegNext
SpecSeg == InitSeg /\ [][NextSeg]_vars

\* extractProcedureType over every note put together from the clauses
InitNote ==
    /\ NoteInit /\ AppFixed
    /\ segText = <<>> /\ segSize = 0 /\ segResult = NoSegResult
    /\ CfgFixed /\ call = IdleCall /\ RecIdle /\ sequential = FALSE
NextNote == ExtractProcedureType \/ NoteDismissed
SpecNote == InitNote /\ [][NextNote]_vars

\* the credential resolver over every combination of sources
InitCfg == CfgInit /\ SegFixed /\ call = IdleCall /\ RecIdle /\ sequential = FALSE
SpecCfg == InitCfg /\ [][CfgNext]_vars

\* storageService under two users, over every content of the notes table
InitStore ==
    /\ StoreInit /\ GenFixed /\ ProxyFixed /\ HistoryFixed
    /\ segText = <<>> /\ segSize = 0 /\ segResult = NoSegResult /\ NoteFixed
    /\ CfgFixed /\ call = IdleCall /\ RecIdle /\ sequential = FALSE
SpecStore == InitStore /\ [][StoreNext]_vars

\* generateMedicalNotes on both targets, over the sources of the Gemini key
InitGen ==
    /\ isWeb \in BOOLEAN
    /\ secureStore \in SourcesOver(ConfigNames, {GEMINI_API_KEY}, "stored")
    /\ storeFails = FALSE
    /\ extra \in SourcesOver(ExtraKeys, {"GEMINI_API_KEY", "EXPO_PUBLIC_GEMINI_API_KEY"}, "bundled")
    /\ publicEnv = EmptySource(ConfigNames)
    /\ cfgName = "" /\ cfgResult = NoCfgResult
    /\ segText = <<>> /\ segSize = 0 /\ segResult = NoSegResult /\ NoteFixed
    /\ StoreFixed /\ GenFixed /\ ProxyFixed /\ HistoryFixed
    /\ call = IdleCall /\ RecIdle /\ sequential = FALSE
SpecGen == InitGen /\ [][GenNext]_vars

\* the proxy handling one POST /api/whisper after the other
InitProxy ==
    /\ ProxyFixed /\ StoreFixed /\ GenFixed /\ HistoryFixed
    /\ segText = <<>> /\ segSize = 0 /\ segResult = NoSegResult /\ NoteFixed
    /\ CfgFixed /\ call = IdleCall /\ RecIdle /\ sequential = FALSE
SpecProxy == InitProxy /\ [][ProxyNext]_vars

\* the history list over every number of stored pages
InitHistory ==
    /\ HistoryInit /\ ProxyFixed /\ StoreFixed /\ GenFixed
    /\ segText = <<>> /\ segSize = 0 /\ segResult = NoSegResult /\ NoteFixed
    /\ CfgFixed /\ call = IdleCall /\ RecIdle /\ sequential = FALSE
SpecHistory == InitHistory /\ [][HistoryNext]_vars

\* the capture adapter's sources are not read by the recorder
RecEnv ==
    /\ isWeb \in BOOLEAN
    /\ secureStore = EmptySource(ConfigNames)
    /\ storeFails = FALSE
    /\ extra = EmptySource(ExtraKeys)
    /\ publicEnv = EmptySource(ConfigNames)
    /\ cfgName = "" /\ cfgResult = NoCfgResult
    /\ SegFixed /\ call = IdleCall

\* the capture adapter under two callers whose calls overlap at await points
InitRec == RecEnv /\ RecIdle /\ sequential = FALSE
NextRec == \E t \in Threads : RecStep(t)
SpecRec == InitRec /\ [][NextRec]_vars

\* the capture adapter under a single caller, one call after the other
InitRecSeq == RecEnv /\ RecIdle /\ sequential = TRUE
NextRecSeq == RecStep(MainCaller)
SpecRecSeq == InitRecSeq /\ [][NextRecSeq]_vars

-----------------------------------------------------------------------------
(* Claims about transcribeAudio (specification Spec) *)

CallDone == call.pc = "done"
PrimaryFailed == call.whisperCalls = 1 /\ call.wResp.kind \in {"http", "network", "timeout"}
SecondaryFailed == call.geminiCalls = 1 /\ call.gResp.kind \in {"http", "network", "timeout"}

\* C1: when the Whisper request is answered 2xx with a text field, the call
\* resolves with exactly that text and no Gemini request was dispatched
\* during the call, on the native and on the web flow.
C1_PrimarySuccess ==
    (CallDone /\ call.wResp.kind = "ok" /\ call.wResp.text # Undefined)
        => /\ call.outcome.kind = "ok"
           /\ call.outcome.text = call.wResp.text
           /\ call.geminiCalls = 0

C1_Witness ==
    /\ CallDone /\ isWeb
    /\ call.wResp.kind = "ok" /\ call.wResp.text = <<"a", ".", " ", "a">>
    /\ call.outcome.kind = "ok"

\* C2: when the Whisper attempt fails (network error, non-2xx, timeout, rate
\* limit) and the Gemini request is then answered 2xx, the call resolves
\* with Gemini's text; the Whisper error is not what the caller sees.
C2_FallbackSuccess ==
    (CallDone /\ PrimaryFailed /\ call.gResp.kind = "ok")
        => /\ call.outcome.kind = "ok"
           /\ call.outcome.text = TextOrEmpty(call.gResp.text)
           /\ call.outcome.msg = <<>>

C2_Witness ==
    /\ CallDone /\ isWeb
    /\ call.wResp.kind = "timeout"
    /\ call.gResp.kind = "ok" /\ call.gResp.text = <<"a">>
    /\ call.outcome.kind = "ok"

\* C3: when both provider attempts fail, the thrown error's message contains
\* the Whisper attempt's error message and the Gemini attempt's error message.
C3_BothCauses ==
    (CallDone /\ PrimaryFailed /\ SecondaryFailed)
        => /\ call.outcome.kind = "error"
           /\ Contains(call.outcome.msg, call.whisperErr)
           /\ Contains(call.outcome.msg, call.geminiErr)

\* C6: a Whisper 2xx answer without segments whose text is empty or absent
\* ends the call in success with empty text, without a Gemini attempt.
C6_EmptyTranscriptIsSuccess ==
    (CallDone /\ call.wResp.kind = "ok" /\ ~call.wResp.hasSegments
        /\ call.wResp.text \in {<<>>, Undefined})
        => /\ call.outcome.kind = "ok"
           /\ call.outcome.text = <<>>
           /\ call.geminiCalls = 0

\* C8: a null/empty handle or a handle whose resource does not exist fails
\* with an invalid-input error before any credential is resolved and before
\* any provider is dispatched, and not as the both-providers-failed error.
C8_FailFast ==
    (CallDone /\ call.uri \in {NoUri, MissingUri})
        => /\ call.outcome.kind = "error"
           /\ call.outcome.msg \in {NoFileMsg, FileMissingMsg, FetchFailedMsg}
           /\ call.lookups = <<>>
           /\ call.whisperCalls = 0 /\ call.geminiCalls = 0

-----------------------------------------------------------------------------
(* Claims about generateBasicSegments (specification SpecSeg) *)

\* the number of sentence breaks of a text, counted directly: whitespace
\* characters that directly follow a sentence terminator
SentenceBreaks(s) ==
    Cardinality({i \in 2..Len(s) : s[i] \in Whitespace /\ s[i - 1] \in Terminators})

\* C7: for a duration D and a text of N >= 1 sentences the synthesized list
\* has N segments, ids 0..N-1, segment i spanning [i*D/N, (i+1)*D/N]: each
\* of length D/N, the first starting at 0, the last ending at D, contiguous.
C7_EvenSegments ==
    segResult.called =>
        LET segs == segResult.segments
            N == SentenceBreaks(segText) + 1
            D == Rat(segSize, BytesPerSecond)
        IN  /\ ~segResult.threw
            /\ Len(segs) = N
            /\ \A i \in 1..Len(segs) :
                /\ segs[i].id = i - 1
                /\ RatEq(segs[i].start, Rat((i - 1) * D[1], D[2] * N))
                /\ RatEq(segs[i].end, Rat(i * D[1], D[2] * N))
                /\ RatEq(RatSub(segs[i].end, segs[i].start), Rat(D[1], D[2] * N))
                /\ (i < Len(segs) => RatEq(segs[i].end, segs[i + 1].start))
            /\ RatEq(segs[1].start, <<0, 1>>)
            /\ RatEq(segs[Len(segs)].end, D)

C7_Witness ==
    /\ segResult.called
    /\ segText = <<".", " ", ".", " ">>
    /\ segSize = 3000
    /\ Len(segResult.segments) = 3

-----------------------------------------------------------------------------
(* Claims about getConfigValue (specification SpecCfg) *)

AllSourcesEmpty(configName) ==
    /\ secureStore[configName] = ""
    /\ extra[configName] = ""
    /\ publicEnv[configName] = ""

Resolving == cfgResult.source \in {"secure storage", "app config", "public env",
                                    "hardcoded", "not configured"}

\* C10: resolve("OPENAI_API_KEY") with no secure-store value, no bundled
\* config and no public env variable returns the embedded key on the web
\* target and fails as not configured on the native target.
C10_EmptySources ==
    (Resolving /\ cfgName = OPENAI_API_KEY /\ AllSourcesEmpty(OPENAI_API_KEY))
        => IF isWeb
           THEN cfgResult.ok /\ cfgResult.value = HardcodedOpenAIKey
           ELSE ~cfgResult.ok /\ cfgResult.source = "not configured"

C10_Witness ==
    /\ Resolving /\ cfgName = OPENAI_API_KEY /\ AllSourcesEmpty(OPENAI_API_KEY)
    /\ isWeb
    /\ cfgResult.value = HardcodedOpenAIKey

FlowEnded(t) == thr[t].pc = "returned" /\ thr[t].op \in Flows /\ thr[t].uri # 0

\* C4: whenever recordAndTranscribe or handleStopRecording ends, by normal
\* return or by a throw from transcription or note generation, the handle
\* that its stopRecording produced has been released.
C4_ReleasedOnEveryExit ==
    \A t \in Threads : FlowEnded(t) => sess[thr[t].uri] = "released"

ActiveSessions == {i \in SessionIds : sess[i] = "recording"}

\* C5: in every reachable state, overlapping startRecording calls included,
\* at most one recording session is active, and every active session is the
\* one the adapter references.
C5_SingleSession ==
    /\ Cardinality(ActiveSessions) <= 1
    /\ \A i \in ActiveSessions : i \in {recording, mediaRecorder}

TwoCleanupsAfterStop ==
    /\ Len(hist) = 3
    /\ hist[1] = Entry("stop", "uri")
    /\ hist[2].op = "cleanup"
    /\ hist[3].op = "cleanup"

\* C9 as stated: of two successive cleanupTempFile calls after a
\* stopRecording, neither throws, the first releases the handle and clears
\* tempUri, and the second performs no release operation.
C9_Idempotent ==
    TwoCleanupsAfterStop =>
        /\ hist[2].res = "released"
        /\ hist[3].res = "noop"
        /\ tempUri = 0

\* C9 amended: of two successive cleanupTempFile calls after a
\* stopRecording, neither throws; the first attempts the release; if that
\* release succeeds tempUri is cleared and the second call performs no
\* release operation; the second call attempts a release only when the
\* first one's release failed and left tempUri set; no handle is released
\* twice.
C9_IdempotentUnlessReleaseFails ==
    TwoCleanupsAfterStop =>
        /\ hist[2].res \in {"released", "failed"}
        /\ hist[3].res \in {"released", "failed", "noop"}
        /\ hist[2].res = "released" => (hist[3].res = "noop" /\ tempUri = 0)
        /\ hist[3].res # "noop" => hist[2].res = "failed"
        /\ hist[3].res = "failed" => tempUri # 0
        /\ \A i \in SessionIds : releases[i] <= 1

C9_Witness ==
    /\ TwoCleanupsAfterStop
    /\ hist[2].res = "released"
    /\ hist[3].res = "noop"
    /\ tempUri = 0
    /\ \E i \in SessionIds : releases[i] = 1

Stopped == recording = 0 /\ mediaRecorder = 0

StopCalledBy(t) == thr[t].pc = "idle" /\ thr'[t].op = "stop" /\ thr'[t].pc # "idle"

\* C11: a stopRecording call made while the adapter holds no session
\* returns null without throwing and changes nothing: the adapter still
\* holds no session and tempUri, the blob and every handle are as before.
C11_StopWhileStopped ==
    [][\A t \in Threads :
        (StopCalledBy(t) /\ Stopped) =>
            /\ thr'[t].pc = "returned"
            /\ thr'[t].res = "null"
            /\ Stopped'
            /\ UNCHANGED <<adapterVars, deviceVars>>]_vars

C11_Witness ==
    \E t \in Threads :
        /\ thr[t].op = "stop" /\ thr[t].pc = "returned" /\ thr[t].res = "null"
        /\ Stopped
        /\ tempUri # 0 /\ sess[tempUri] = "live"

\* C12 as stated: saveConfigValue on web never throws and writes nothing,
\* so every resolve returns what it returned before; on native the value is
\* written to the secure store and a resolve of the name returns it.
C12_SaveEffect ==
    [][\A n \in VariedNames, v \in SaveValues :
        SaveConfig(n, v) =>
            /\ isWeb =>
                  /\ cfgResult'.ok
                  /\ secureStore' = secureStore
                  /\ \A m \in ConfigNames : getConfigValue(m)' = getConfigValue(m)
            /\ ~isWeb =>
                  /\ secureStore'[n] = v
                  /\ getConfigValue(n)'.ok
                  /\ getConfigValue(n)'.value = v]_vars

\* C12 amended: saveConfigValue on web never throws and writes nothing, so
\* every resolve returns what it returned before; on native a rejected
\* SecureStore write is rethrown and writes nothing, an accepted one stores
\* the value under the name and changes no other entry; a resolve of a name
\* on native returns the stored value whenever that value is non-empty and
\* the secure store can be read.
C12_SaveEffectWhenStoreAccepts ==
    /\ [](\A n \in ConfigNames :
            (~isWeb /\ ~storeFails /\ secureStore[n] # "") =>
                getConfigValue(n) = Found(secureStore[n], "secure storage"))
    /\ [][\A n \in VariedNames, v \in SaveValues :
            SaveConfig(n, v) =>
                /\ isWeb =>
                      /\ cfgResult'.ok
                      /\ secureStore' = secureStore
                      /\ \A m \in ConfigNames : getConfigValue(m)' = getConfigValue(m)
                /\ (~isWeb /\ storeFails) =>
                      /\ ~cfgResult'.ok
                      /\ secureStore' = secureStore
                /\ (~isWeb /\ ~storeFails) =>
                      /\ cfgResult'.ok
                      /\ secureStore' = [secureStore EXCEPT ![n] = v]]_vars

C12_Witness ==
    /\ isWeb
    /\ cfgName = OPENAI_API_KEY
    /\ cfgResult.source = "save ignored"
    /\ secureStore[OPENAI_API_KEY] = ""
    /\ getConfigValue(OPENAI_API_KEY) = Found(HardcodedOpenAIKey, "hardcoded")

\* a way for /label.*?:\s*([^.\n]+)/ to match with the capture starting
\* at p: the label at some i, a colon at some j later on the same line,
\* then nothing but whitespace up to p
LabelMatchAt(s, label, p) ==
    /\ s[p] \notin {".", "nl"}
    /\ \E j \in 1..(p - 1) :
          /\ s[j] = ":"
          /\ \A q \in (j + 1)..(p - 1) : s[q] \in NoteSpace
          /\ \E i \in 1..(j - 1) :
                /\ s[i] = label
                /\ \A q \in (i + 1)..(j - 1) : s[q] # "nl"

\* a way for the generic phrase pattern to match with the capture ending at
\* the suffix keyword at e: a lead, whitespace, an article, whitespace, and
\* a capture s[p..e] of at least one more token
GenericMatchAt(s, e) ==
    /\ s[e] \in Suffixes
    /\ \E p \in 1..(e - 1) :
          /\ \A q \in p..e : s[q] \notin {".", "nl"}
          /\ \E a \in 1..(p - 2) :
                /\ s[a] \in Articles
                /\ \A q \in (a + 1)..(p - 1) : s[q] \in NoteSpace
                /\ \E i \in 1..(a - 2) :
                      /\ s[i] \in Leads
                      /\ \A q \in (i + 1)..(a - 1) : s[q] \in NoteSpace

PatternCanMatch(k, s) ==
    IF k <= Len(Labels)
    THEN \E p \in 1..Len(s) : LabelMatchAt(s, Labels[k], p)
    ELSE \E e \in 1..Len(s) : GenericMatchAt(s, e)

MatchingPatterns(s) == {k \in 1..GenericPattern : PatternCanMatch(k, s)}

\* the result is the trimmed capture of the first pattern, in the order
\* Procedure, Diagnosis, Assessment, Chief complaint, generic phrase, that
\* can match anywhere in the content; the vocabulary is scanned only when
\* none can
FirstPatternWins ==
    LET s == noteContent
        first == Min(MatchingPatterns(s))
    IN  /\ MatchingPatterns(s) = {} => noteResult.via \in {"vocabulary", "default"}
        /\ MatchingPatterns(s) # {} =>
              /\ noteResult.via = "pattern"
              /\ noteResult.pattern = first
              /\ \A q \in 1..Len(noteResult.value) : noteResult.value[q] \notin {".", "nl"}
              /\ noteResult.value = NoteTrim(noteResult.value)
              /\ first <= Len(Labels) =>
                    \E p \in 1..Len(s) :
                        /\ LabelMatchAt(s, Labels[first], p)
                        /\ noteResult.value = NoteTrim(SubSeq(s, p, RunEnd(s, p)))

AcuteAppendicitis == <<"x", " ", "appendicitis">>

ExampleAt(s, pos) ==
    /\ pos + Len(DiagnosisExample) - 1 <= Len(s)
    /\ SubSeq(s, pos, pos + Len(DiagnosisExample) - 1) = DiagnosisExample

\* C13 as stated: first pattern in the fixed order wins wherever the labels
\* occur, the vocabulary is scanned only when no pattern matches, and
\* content containing "Diagnosis: Acute appendicitis." that the Procedure
\* pattern does not match yields "Acute appendicitis".
C13_FirstPatternWins ==
    noteResult # NoNote =>
        /\ FirstPatternWins
        /\ (Contains(noteContent, DiagnosisExample) /\ 1 \notin MatchingPatterns(noteContent))
              => noteResult.value = AcuteAppendicitis

\* C13 amended: first pattern in the fixed order wins wherever the labels
\* occur, the vocabulary is scanned only when no pattern matches, and
\* content that the Procedure pattern does not match and whose first
\* occurrence of "diagnosis" begins "Diagnosis: Acute appendicitis."
\* yields "Acute appendicitis".
C13_FirstPatternWinsFirstLabel ==
    noteResult # NoNote =>
        /\ FirstPatternWins
        /\ \A pos \in 1..Len(noteContent) :
              ( /\ ExampleAt(noteContent, pos)
                /\ \A q \in 1..(pos - 1) : noteContent[q] # "diagnosis"
                /\ 1 \notin MatchingPatterns(noteContent) )
              => noteResult.value = AcuteAppendicitis

C13_Witness ==
    /\ noteContent = <<"assessment", ":", "x", " ">> \o DiagnosisExample
    /\ noteResult.via = "pattern"
    /\ noteResult.pattern = 2
    /\ noteResult.value = AcuteAppendicitis

Succeeded == CallDone /\ call.outcome.kind = "ok"

\* the provider sent no segment breakdown, so the segments are synthesized
Synthesized == call.gResp.kind = "ok" \/ ~call.wResp.hasSegments

\* C14: every successful result, from Whisper or Gemini, on native or web,
\* has duration = byte length / 2000, and the segments synthesized for it
\* start at 0, end at that duration and each last duration / count.
C14_DurationFromBytes ==
    Succeeded =>
        LET d == call.outcome.duration
            segs == call.outcome.segments
        IN  /\ d[1] * 2000 = call.size * d[2]
            /\ (Synthesized /\ segs # <<>>) =>
                  /\ RatEq(segs[1].start, <<0, 1>>)
                  /\ RatEq(segs[Len(segs)].end, d)
                  /\ \A k \in 1..Len(segs) :
                        RatEq(RatMulInt(Len(segs), RatSub(segs[k].end, segs[k].start)), d)

C14_Witness ==
    /\ Succeeded
    /\ ~isWeb
    /\ call.gResp.kind = "ok"
    /\ call.size = 200000
    /\ call.outcome.duration = <<100, 1>>
    /\ Len(call.outcome.segments) = 2
    /\ call.outcome.segments[2].end = <<100, 1>>

WhisperInFlight == call.whisperCalls > 0 /\ call.wResp = NoResponse
GeminiInFlight == call.geminiCalls > 0 /\ call.gResp = NoResponse

\* C15: within one transcribeAudio call at most one provider request is in
\* flight, each provider is dispatched at most once (two dispatches in
\* total at most), and Gemini is dispatched only after the Whisper attempt
\* has ended in an error or was never made for lack of a credential.
C15_Sequential ==
    /\ ~(WhisperInFlight /\ GeminiInFlight)
    /\ call.whisperCalls <= 1
    /\ call.geminiCalls <= 1
    /\ call.whisperCalls + call.geminiCalls <= 2
    /\ call.geminiCalls > 0 =>
          /\ ~WhisperInFlight
          /\ \/ call.whisperErr # <<>>
             \/ call.whisperCalls = 0 /\ isWeb /\ call.openAIKey = ""

C15_Witness ==
    /\ GeminiInFlight
    /\ call.whisperCalls = 1
    /\ call.wResp.kind = "http"
    /\ call.whisperErr # <<>>

\* C16: while a flow's transcribeAudio call on a handle is in flight, no
\* cleanupTempFile call (the screen's unmount effect included) completes a
\* release of that handle.
C16_NoReleaseInFlight ==
    [][\A t \in Threads :
        (thr[t].pc = "transcribing" /\ thr[t].uri # 0) =>
            releases'[thr[t].uri] = releases[thr[t].uri]]_vars

\* the web flow at the point where getOpenAIKey() has been caught as null
\* and getGeminiKey() has resolved
WebCallWithoutOpenAIKey ==
    [IdleCall EXCEPT !.uri = LiveUri,
                     !.lookups = <<OPENAI_API_KEY, GEMINI_API_KEY>>,
                     !.openAIKey = "", !.geminiKey = HardcodedGeminiKey]

\* C17: when a call tries to resolve OPENAI_API_KEY and cannot, no request
\* goes to Whisper,
\* Gemini is tried next (its key is the next thing resolved, without a
\* delay, and its request is dispatched when the key resolves and the file
\* exists), and a Gemini 2xx answer resolves the call with Gemini's text.
\* On web the resolver always finds a key, so the branch is checked on the
\* call record it would see.
C17_PrimaryKeyUnresolved ==
    /\ (~isWeb /\ ~getOpenAIKey.ok /\ call.lookups # <<>>) =>
          /\ call.whisperCalls = 0
          /\ ~call.delayed
          /\ Len(call.lookups) >= 2
          /\ call.lookups[1] = OPENAI_API_KEY
          /\ call.lookups[2] = GEMINI_API_KEY
          /\ (getGeminiKey.ok /\ call.uri = LiveUri) => call.geminiCalls = 1
          /\ (CallDone /\ call.gResp.kind = "ok") =>
                /\ call.outcome.kind = "ok"
                /\ call.outcome.text = TextOrEmpty(call.gResp.text)
    /\ isWeb =>
          LET c == webWithKeys(WebCallWithoutOpenAIKey)
          IN  /\ c.whisperCalls = 0
              /\ c.pc = "gemini" /\ c.geminiCalls = 1
              /\ \A r \in {g \in GeminiResponses : g.kind = "ok"} :
                    /\ onGeminiResponse(c, r).outcome.kind = "ok"
                    /\ onGeminiResponse(c, r).outcome.text = TextOrEmpty(r.text)

C17_Witness ==
    /\ ~isWeb /\ ~getOpenAIKey.ok
    /\ CallDone
    /\ call.whisperCalls = 0 /\ call.geminiCalls = 1
    /\ call.gResp.kind = "ok" /\ call.gResp.text = <<"a", ".", " ", "a">>
    /\ call.outcome.kind = "ok" /\ call.outcome.text = <<"a", ".", " ", "a">>

\* the call has tried to resolve GEMINI_API_KEY and could not
SecondaryKeyUnresolved ==
    IF isWeb
    THEN GEMINI_API_KEY \in {call.lookups[k] : k \in 1..Len(call.lookups)} /\ call.geminiKey = ""
    ELSE ~getGeminiKey.ok

RateLimited == call.wResp.kind = "http" /\ call.wResp.status = "429"

\* C19: on both flows, a Gemini request that follows a Whisper failure is
\* preceded by the fixed delay exactly when that failure was HTTP 429.
C19_DelayOnRateLimit ==
    (call.geminiCalls > 0 /\ call.whisperCalls > 0) => (call.delayed <=> RateLimited)

\* C20: segment synthesis for the empty transcript returns no segments
\* (and does not fail), and no synthesized segment has empty text.
C20_NoEmptySegments ==
    (segResult.called /\ segText # Undefined) =>
        /\ ~segResult.threw
        /\ segText = <<>> => segResult.segments = <<>>
        /\ \A k \in 1..Len(segResult.segments) : segResult.segments[k].text # <<>>

-----------------------------------------------------------------------------
(* Claims about the native resolution order (specification SpecCfg) *)

\* a resolve(name) step: the sources are left alone and a lookup result is stored
ResolveCalled(n) ==
    /\ cfgName' = n
    /\ cfgResult'.source \in {"secure storage", "app config", "public env",
                              "hardcoded", "not configured"}
    /\ UNCHANGED <<isWeb, secureStore, storeFails, extra, publicEnv>>

\* what each native source yields for a name ("" = nothing)
StoreYields(n) == IF storeFails THEN "" ELSE secureStore[n]
BundledYields(n) ==
    CASE n = OPENAI_API_KEY -> extra["OPENAI_API_KEY"]
      [] n = GEMINI_API_KEY ->
            IF extra["GEMINI_API_KEY"] # "" THEN extra["GEMINI_API_KEY"]
            ELSE extra["EXPO_PUBLIC_GEMINI_API_KEY"]
      [] n = SUPABASE_URL   -> extra["supabaseUrl"]
      [] n = OPENAI_API_URL -> OpenAIBaseUrl
      [] n = GEMINI_API_URL -> GeminiBaseUrl
HardcodedYields(n) ==
    CASE n = OPENAI_API_KEY -> HardcodedOpenAIKey
      [] n = GEMINI_API_KEY -> HardcodedGeminiKey
      [] OTHER -> ""

\* the value of the first source in `sources` that yields something
RECURSIVE FirstYield(_)
FirstYield(sources) ==
    IF sources = <<>> THEN ""
    ELSE IF Head(sources) # "" THEN Head(sources)
    ELSE FirstYield(Tail(sources))

ResolvesTo(sources) ==
    IF FirstYield(sources) # ""
    THEN cfgResult'.ok /\ cfgResult'.value = FirstYield(sources)
    ELSE ~cfgResult'.ok

\* C21 (as stated): on the native target resolve(name) returns the first
\* non-empty value in the order secure store, bundled configuration,
\* hard-coded fallback (the two provider keys only); a secure-store read
\* error counts as the store yielding nothing.
C21_NativeOrder ==
    [][\A n \in ConfigNames : (ResolveCalled(n) /\ ~isWeb) =>
          ResolvesTo(<<StoreYields(n), BundledYields(n), HardcodedYields(n)>>)]_vars

\* C21 (amended): on the native target resolve(name) returns the first
\* non-empty value in the order secure store, bundled configuration, and
\* fails as not configured when neither yields one (there is no hard-coded
\* fallback on native); a secure-store read error counts as the store
\* yielding nothing and does not by itself fail the lookup.
C21_NativeOrderWithoutHardcoded ==
    [][\A n \in ConfigNames : (ResolveCalled(n) /\ ~isWeb) =>
          /\ ResolvesTo(<<StoreYields(n), BundledYields(n)>>)
          /\ ~cfgResult'.ok => cfgResult'.source = "not configured"]_vars

\* a native lookup whose secure-store read failed although a value is stored,
\* answered from the bundled configuration
C21_Witness ==
    /\ ~isWeb /\ storeFails
    /\ cfgName = OPENAI_API_KEY
    /\ secureStore[OPENAI_API_KEY] = "stored"
    /\ cfgResult.ok /\ cfgResult.value = "bundled" /\ cfgResult.source = "app config"

-----------------------------------------------------------------------------
(* Claims about a failing release (specification SpecRecSeq) *)

\* caller t takes a step of cleanupTempFile
CleanupRuns(t) ==
    /\ \/ thr[t].pc \in {"C_delete", "call_cleanup"}
       \/ thr[t].pc = "idle" /\ thr'[t].op = "cleanup"
    /\ thr'[t] # thr[t]

\* the awaited delete of caller t settles by rejecting
ReleaseFails(t) ==
    thr[t].pc = "C_delete" /\ thr'[t].pc # "C_delete" /\ releases' = releases

-----------------------------------------------------------------------------
(* Claims about storageService (specification SpecStore) *)

\* a storageService call has just ended
StoreCalled == stLast' # stLast

\* C23: a save, get, update or delete by one user on a note owned by the
\* other fails with a not-authorized error and leaves the table unchanged; a
\* call with no authenticated user fails without touching the table; list
\* and search return only notes owned by the caller.
C23_CrossUserRejected ==
    [][StoreCalled =>
          /\ (/\ stLast'.op \in {"updateNote", "getNoteById", "deleteNote"}
              /\ stLast'.user \in Users
              /\ notes[stLast'.id].userId \in Users \ {stLast'.user})
                => stLast'.res = NotAuthorized /\ notes' = notes
          /\ stLast'.user = NoUser => stLast'.res = NotAuthenticated /\ notes' = notes
          /\ (stLast'.op \in {"getNotes", "searchNotes"} /\ stLast'.res = "ok")
                => \A k \in 1..Len(stLast'.rows) :
                       notes[stLast'.rows[k]].userId = stLast'.user]_vars

\* C28: every storageService call that reaches the storage client finds it
\* initialized (non-null), before and after the asynchronous initialization
\* of supabaseConfig has completed.
C28_ClientNeverNull ==
    (stLast.op # "none" /\ stLast.user \in Users) => stLast.res # NullClientError

-----------------------------------------------------------------------------
(* Claims about a failing startRecording (specification SpecRecSeq) *)

\* sessions that hold the device's recorder: prepared or recording
OpenSessions == {i \in SessionIds : sess[i] \in {"prepared", "recording"}}

StartAwaits == {"S_getUserMedia", "S_permission", "S_prepare", "S_startAsync"}

\* the startRecording call of caller t, made with no session on the device
\* other than the one it is preparing, ends by throwing
StartFailsFromStopped(t) ==
    /\ thr[t].op = "start" /\ thr[t].pc \in StartAwaits
    /\ thr'[t].pc = "returned" /\ thr'[t].res = "threw"
    /\ Stopped /\ OpenSessions \ {thr[t].sid} = {}

\* C24: a startRecording call made while Stopped that fails, because
\* microphone access is denied or because preparing the recording fails,
\* leaves the adapter Stopped with no active session (so that a later
\* startRecording with access granted can succeed).
C24_FailedStartLeavesStopped ==
    [][\A t \in Threads :
          StartFailsFromStopped(t) => Stopped' /\ OpenSessions' = {}]_vars

-----------------------------------------------------------------------------
(* Claims about generateMedicalNotes (specification SpecGen) *)

CredentialClass == gen.out.threw /\ Head(gen.out.message) = ApiKeyErrorPrefix
RateLimitClass == gen.out.threw /\ gen.out.message = <<RateLimitExceeded>>
ProviderClass(status) ==
    /\ gen.out.threw
    /\ Len(gen.out.message) >= 2
    /\ gen.out.message[1] = GeminiApiErrorPrefix
    /\ gen.out.message[2] = status

\* C25: generateMedicalNotes returns no result when the provider call fails;
\* an HTTP 403 is reported as an API key error, an HTTP 429 as a rate-limit
\* error, every other HTTP failure as a generic provider error carrying the
\* status code, and no failure falls into two of these classes.
C25_FailureClasses ==
    (gen.pc = "done" /\ gen.resp.kind # "ok") =>
        /\ gen.out.threw
        /\ gen.resp.kind = "http" =>
              /\ CredentialClass <=> gen.resp.status = "403"
              /\ RateLimitClass <=> gen.resp.status = "429"
              /\ ProviderClass(gen.resp.status) <=> gen.resp.status \notin {"403", "429"}
              /\ \A st \in GenStatuses \ {gen.resp.status} : ~ProviderClass(st)

\* a 429 answer that carried a provider message, reported as a rate limit
C25_Witness ==
    /\ gen.pc = "done"
    /\ gen.resp.kind = "http" /\ gen.resp.status = "429"
    /\ gen.resp.message # Undefined
    /\ RateLimitClass /\ ~CredentialClass

-----------------------------------------------------------------------------
(* Claims about handles that are overwritten (specification SpecRecSeq) *)

\* the last call that completed was a cleanupTempFile whose release did not fail
CleanupReturned ==
    /\ hist # <<>>
    /\ hist[Len(hist)].op = "cleanup"
    /\ hist[Len(hist)].res \in {"released", "noop"}

\* C26: once cleanupTempFile has returned, no handle produced by an earlier
\* stopRecording (the one inside startRecording included) is left
\* unreleased, also when a later stopRecording produced a new handle before
\* cleanupTempFile ran.
C26_NoHandleLeftBehind ==
    CleanupReturned => \A i \in SessionIds : sess[i] # "live"

-----------------------------------------------------------------------------
(* Claims about a failing stopRecording (specification SpecRecSeq) *)

\* the awaited part of a stopRecording call of caller t settles
StopSettles(t) ==
    thr[t].pc \in {"P_stopNative", "P_onstop"} /\ thr'[t].pc # thr[t].pc

\* C27: after a stopRecording call made while Recording has settled, by
\* returning a handle or by throwing, the adapter is Stopped.
C27_StoppedAfterStop ==
    [][\A t \in Threads : StopSettles(t) => Stopped']_vars

-----------------------------------------------------------------------------
(* Claims about the proxy (specification SpecProxy) *)

\* C29: when the response of a POST /api/whisper request goes out, the file
\* that was stored in uploads/ for that request has been deleted, on every
\* path: provider success, provider error, transport error, missing key.
C29_UploadDeleted ==
    (proxy.pc = "responded" /\ proxy.file # 0) => proxy.file \notin uploads

-----------------------------------------------------------------------------
(* Claims about the history list (specification SpecHistory) *)

=============================================================================
